---- MODULE Spec2Model ----
(***************************************************************************)
(* State-machine model of the Kiwoom REST client of MLStock                *)
(* (src/src/api/kiwoom_client.py) and of the collectors that page through  *)
(* it.  Every public call is run by a thread in steps that end where the   *)
(* code blocks on the network or sleeps between retry attempts, so that    *)
(* the clock and another thread can move in between.                       *)
(*                                                                         *)
(* Optional values (Python None) are sets of at most one element.          *)
(* Strings that the code trims are sequences of one-character strings.     *)
(***************************************************************************)
EXTENDS Integers, Sequences, FiniteSets, TLC

VARIABLES
    credentials,    \* settings.credentials: [app_sky, sec_key, account_no]
    access_token,   \* self._access_token: {} or {token}
    token_expiry,   \* self._token_expiry: {} or {absolute second}
    endpoints,      \* self.endpoints: the names that have a path configured
    is_live,        \* settings.is_live
    kiwoom_cfg,     \* settings.kiwoom: the base_url, hosts and default_headers entries
    base_url,       \* self.base_url: {} before construction, else {url}
    default_headers, \* self.default_headers: header name -> value
    closed,         \* self._closed
    session_closes, \* self.session: number of times the HTTP session was closed
    now,            \* datetime.now(timezone.utc), in seconds
    epoch,          \* history: number of update_credentials calls so far
    justUpdated,    \* history: the last public call started was update_credentials
    pc,             \* per thread: where the thread stands
    frame,          \* per thread: arguments, locals and the call's trace
    result,         \* per thread: what the last finished call returned/raised
    risk,           \* settings.risk: section name -> (limit name -> value)
    window,         \* AuthWindow: token_ready, the sync button, the log console
    events          \* Qt: the queued slot invocations posted to the window

\* what construction fixes, and the state of the HTTP session
config == <<endpoints, is_live, kiwoom_cfg, base_url, default_headers>>
http_session == <<closed, session_closes>>

\* the guardrails' limits and the form
desk == <<risk, window, events>>

vars == <<credentials, access_token, token_expiry, config, http_session, now, epoch,
          justUpdated, pc, frame, result, desk>>

----------------------------------------------------------------------------
(* Bounds of the model *)

MaxTicks == 2
MaxEpoch == 2
MaxPagesArg == 2
MaxDataPages == 2
MaxClicks == 2

(* Program constants *)

TokenMargin == 60
DefaultExpiry == 3600
MaxAttempts == 3
DefaultMaxPages == 200

\* the last second that datetime can hold, counted from the origin of the
\* clock and scaled to the integers of the model
DatetimeMax == 1000000000

AccountOverviewPages == 50

Threads == {"ui", "worker"}
TickSteps == {30}

None == {}
Some(x) == {x}
The(s) == CHOOSE x \in s : TRUE

----------------------------------------------------------------------------
(* str.strip() on a sequence of characters *)

Whitespace == {" "}

RECURSIVE LStrip(_)
LStrip(s) ==
    IF s # <<>> /\ Head(s) \in Whitespace THEN LStrip(Tail(s)) ELSE s

RECURSIVE RStrip(_)
RStrip(s) ==
    IF s # <<>> /\ s[Len(s)] \in Whitespace
    THEN RStrip(SubSeq(s, 1, Len(s) - 1))
    ELSE s

Strip(s) == RStrip(LStrip(s))

----------------------------------------------------------------------------
(* Exceptions and results *)

Exc(kind) ==
    [kind |-> kind, status_code |-> None, payload |-> None, cause |-> None, message |-> None]

ConfigurationError == Exc("ConfigurationError")
ConfigurationErrorSaying(text) == [ConfigurationError EXCEPT !.message = Some(text)]
AuthenticationError == Exc("AuthenticationError")
AuthenticationErrorSaying(text) == [AuthenticationError EXCEPT !.message = Some(text)]
RateLimitError == Exc("RateLimitError")

\* KiwoomAPIError(message, **kwargs): the class defines no constructor, so the
\* one of Exception runs, which takes no keyword arguments: with any keyword
\* the construction itself raises TypeError.
KiwoomAPIError(kwargs) ==
    IF DOMAIN kwargs # {} THEN Exc("TypeError") ELSE Exc("KiwoomAPIError")

\* tenacity's RetryError, raised when the attempts are used up (no reraise)
RetryError(last) == [Exc("RetryError") EXCEPT !.cause = Some(last)]

NoResult == [status |-> "none", token |-> None, body |-> None, headers |-> None, exc |-> None]
Returned(tok, body, hdrs) == [NoResult EXCEPT !.status = "ok", !.token = tok, !.body = body, !.headers = hdrs]
Raised(e) == [NoResult EXCEPT !.status = "raise", !.exc = Some(e)]

----------------------------------------------------------------------------
(* Configuration: the kiwoom section of data_sources.yaml and the base URL.
   A configured value is absent, a string, or a table keyed by environment. *)

NoTable == [k \in {} |-> ""]
CfgAbsent == [t |-> "none", s |-> "", d |-> NoTable]
CfgStr(s) == [t |-> "str", s |-> s, d |-> NoTable]
CfgTable(d) == [t |-> "dict", s |-> "", d |-> d]

\* dict.get(key) on a table: None when the key is missing
TableGet(d, k) == IF k \in DOMAIN d THEN Some(d[k]) ELSE None

\* truth value of an optional string, and Python's "a or b"
IsTruthy(o) == o # None /\ o # Some("")
Or(a, b) == IF IsTruthy(a) THEN a ELSE b

\* pick(value), lines 138-143
pick(value, env_key) ==
    IF value.t = "dict"
    THEN Or(Or(TableGet(value.d, env_key), TableGet(value.d, "paper")),
            TableGet(value.d, "live"))
    ELSE IF value.t = "str" THEN Some(value.s)
    ELSE None

\* lines 157-158: the hard-coded fallback
DefaultUrlMissing(live) == ""

DefaultUrl(live) == IF live THEN "https://api.kiwoom.com" ELSE "https://mockapi.kiwoom.com"

\* lines 145-151: the candidates in the order in which they are tried
Candidates(cfg, env_key) ==
    <<pick(cfg.base_url, env_key), pick(cfg.hosts, env_key)>>
    \o (IF cfg.base_url.t = "str" THEN <<Some(cfg.base_url.s)>> ELSE <<>>)

\* _resolve_base_url, lines 133-158
resolve_base_url(cfg, live) ==
    LET env_key == IF live THEN "live" ELSE "paper"
        usable == SelectSeq(Candidates(cfg, env_key), IsTruthy)
    IN  IF usable # <<>> THEN The(Head(usable)) ELSE DefaultUrl(live)

\* A configured header table: the sequence of its <<key, value>> entries in
\* the order of the file, each key a sequence of characters.  A dict of
\* headers: a function from header names to values.
NoHeaderTable == <<>>
EmptyDict == [k \in {} |-> ""]

\* "".join(chars)
RECURSIVE Join(_)
Join(chars) == IF chars = <<>> THEN "" ELSE Head(chars) \o Join(Tail(chars))

\* str.lower(), on the letters that occur in header names
LowerChar(ch) ==
    CASE ch = "A" -> "a" [] ch = "C" -> "c" [] ch = "E" -> "e" [] ch = "N" -> "n"
      [] ch = "O" -> "o" [] ch = "P" -> "p" [] ch = "T" -> "t" [] ch = "Y" -> "y"
      [] OTHER -> ch

LowerChars(chars) == [i \in 1..Len(chars) |-> LowerChar(chars[i])]

ContentTypeSpellings ==
    {<<"c", "o", "n", "t", "e", "n", "t", "_", "t", "y", "p", "e">>,
     <<"c", "o", "n", "t", "e", "n", "t", "-", "t", "y", "p", "e">>}

DefaultContentType == "application/json;charset=UTF-8"

\* dict[key] = value and dict.setdefault(key, value)
SetItem(d, key, value) == (key :> value) @@ d
SetDefault(d, key, value) == IF key \in DOMAIN d THEN d ELSE SetItem(d, key, value)

\* lines 123-128: the name under which one configured key is stored
HeaderKey(key) ==
    LET header_key == Strip(key)
    IN  IF LowerChars(header_key) \in ContentTypeSpellings THEN "Content-Type"
        ELSE Join(header_key)

\* lines 121-128: the loop over headers.items()
RECURSIVE NormalizeLoop(_, _)
NormalizeLoop(normalized, items) ==
    IF items = <<>> THEN normalized
    ELSE LET key == Head(items)[1]
             value == Head(items)[2]
         IN  NormalizeLoop(IF key = <<>> THEN normalized
                           ELSE SetItem(normalized, HeaderKey(key), value),
                           Tail(items))

\* _normalize_headers, lines 117-131
normalize_headers(headers) ==
    SetDefault(NormalizeLoop(EmptyDict, headers), "Content-Type", DefaultContentType)

\* the state that __init__ leaves for a default configuration
Constructed ==
    /\ is_live = FALSE
    /\ kiwoom_cfg = [base_url |-> CfgAbsent,
                     hosts |-> CfgTable([live |-> "https://api.x", paper |-> "https://mock.x"]),
                     default_headers |-> NoHeaderTable]
    /\ base_url = Some(resolve_base_url(kiwoom_cfg, is_live))
    /\ default_headers = normalize_headers(kiwoom_cfg.default_headers)
    /\ closed = FALSE
    /\ session_closes = 0

----------------------------------------------------------------------------
(* The frame of a call *)

NoFrame ==
    [op |-> "none", force |-> FALSE, endpoint |-> None, include_auth |-> FALSE,
     attempt |-> 0,                  \* of the current _request_with_headers call
     authReqs |-> 0, dataReqs |-> 0, \* history: requests sent by that call
     authPayload |-> None, bearer |-> None, sentStale |-> FALSE, notes |-> <<>>,
     afterUpdate |-> FALSE, hadToken |-> FALSE, args |-> None, snap |-> None,
     lastExc |-> None, lastResp |-> None,
     page |-> 0, max_pages |-> 0, cursor |-> [cont_yn |-> "N", next_key |-> ""],
     aggregated |-> <<>>, summaries |-> <<>>, pagesOk |-> <<>>, warned |-> FALSE,
     json_payload |-> None,          \* the JSON body of the request, if any
     sent |-> <<>>,                  \* history: the JSON bodies sent by the call
     logoutReqs |-> 0,               \* history: logout POSTs sent by the call
     params |-> None,                \* the query parameters of the request, if any
     req_headers |-> [k \in {} |-> ""], \* the headers argument of the request
     sent_headers |-> None,          \* the headers of the last request sent
     run |-> None,                   \* DataSyncService.run, when it made the call
     waits |-> <<>>,                 \* history: the sleeps between the attempts
     logged |-> <<>>,                \* history: the lines the call logged
     lastHeaders |-> None]           \* history: headers of the last page taken in

Snapshot == [token |-> access_token, expiry |-> token_expiry, now |-> now]

\* an empty risk.yaml
NoLimits == [section \in {} |-> [key \in {} |-> 0]]

\* the form as _build_ui leaves it, before a token was issued
NoWindow ==
    [token_ready |-> FALSE,
     sync_button |-> TRUE,           \* sync_button.isEnabled()
     log_console |-> <<>>,           \* the lines appended so far
     watchlist_symbols |-> <<>>,
     clicks |-> 0,                   \* history: clicks on the sync button
     started |-> 0]                  \* history: worker threads started

----------------------------------------------------------------------------
(* Token Manager *)

TokenValidInclusive(tok, exp, t, force) ==
    /\ tok # None
    /\ exp # None
    /\ \E e \in exp : e >= t + TokenMargin
    /\ ~force

TokenValid(tok, exp, t, force) ==
    /\ tok # None
    /\ exp # None
    /\ \E e \in exp : e > t + TokenMargin
    /\ ~force

\* JSON scalars of an authentication body: a number or a string
JNum(n) == [t |-> "num", n |-> n, s |-> <<>>]
JStr(chars) == [t |-> "str", n |-> 0, s |-> chars]

DigitValue(ch) ==
    CASE ch = "0" -> 0 [] ch = "1" -> 1 [] ch = "2" -> 2 [] ch = "3" -> 3 [] ch = "4" -> 4
      [] ch = "5" -> 5 [] ch = "6" -> 6 [] ch = "7" -> 7 [] ch = "8" -> 8 [] ch = "9" -> 9

\* str.isdigit() and int(str) on a sequence of characters
AllDigits(chars) ==
    chars # <<>> /\ \A i \in 1..Len(chars) : chars[i] \in {"0", "1", "2", "3", "4", "5", "6", "7", "8", "9"}

RECURSIVE ParseInt(_)
ParseInt(chars) ==
    IF chars = <<>> THEN 0
    ELSE 10 * ParseInt(SubSeq(chars, 1, Len(chars) - 1)) + DigitValue(chars[Len(chars)])

\* datetime.strptime(expires_dt, "%Y%m%d%H%M%S") as UTC, in seconds of the
\* model's clock.  The clock of the model covers one hour of one day, so a
\* timestamp is written with its minute and second fields only ("MMSS");
\* {} stands for ValueError.
strptime(chars) ==
    IF Len(chars) = 4 /\ AllDigits(chars)
          /\ ParseInt(SubSeq(chars, 1, 2)) < 60 /\ ParseInt(SubSeq(chars, 3, 4)) < 60
    THEN Some(60 * ParseInt(SubSeq(chars, 1, 2)) + ParseInt(SubSeq(chars, 3, 4)))
    ELSE None

\* _resolve_expiry: seconds of life granted by an authentication body
Max(a, b) == IF a >= b THEN a ELSE b

resolve_expiry_unfloored(body, t) ==
    LET ein == body.expires_in
        edt == body.expires_dt
    IN  IF ein # None /\ The(ein).t = "num" THEN The(ein).n
        ELSE IF ein # None /\ The(ein).t = "str" /\ AllDigits(The(ein).s) THEN ParseInt(The(ein).s)
        ELSE IF edt # None /\ edt # Some(<<>>) /\ strptime(The(edt)) # None
        THEN The(strptime(The(edt))) - t
        ELSE DefaultExpiry

resolve_expiry(body, t) ==
    LET ein == body.expires_in
        edt == body.expires_dt
    IN  IF ein # None /\ The(ein).t = "num" THEN The(ein).n
        ELSE IF ein # None /\ The(ein).t = "str" /\ AllDigits(The(ein).s) THEN ParseInt(The(ein).s)
        ELSE IF edt # None /\ edt # Some(<<>>) /\ strptime(The(edt)) # None
        THEN Max(The(strptime(The(edt))) - t, 0)
        ELSE DefaultExpiry

\* lines 100-101: a non-empty token under access_token or token
HasToken(body) == body.token_in \cap {"access_token", "token"} # {}

\* str(n) for a natural number, as a sequence of characters
DigitChars == <<"0", "1", "2", "3", "4", "5", "6", "7", "8", "9">>

RECURSIVE Str(_)
Str(n) == IF n < 10 THEN <<DigitChars[n + 1]>> ELSE Str(n \div 10) \o <<DigitChars[(n % 10) + 1]>>

\* str(body.get("return_code")), line 102
return_code_text(body) ==
    IF body.return_code = None THEN <<"N", "o", "n", "e">> ELSE Str(The(body.return_code))

\* lines 102-105: the text of the error for a body without a token
AuthFailureText(body) ==
    LET return_code == return_code_text(body)
    IN  IF return_code # <<>> /\ return_code # <<"0">>
        THEN IF body.return_msg # None /\ body.return_msg # Some("")
             THEN The(body.return_msg)
             ELSE "Authentication failed: {body}"
        ELSE "Invalid authentication response: {body}"

\* authenticate(), lines 65-93: up to the POST.  What the call does first:
\* "hit" (cached token), "raise", or "post" (the request goes out).
AuthStartEndpointFirst(force) ==
    IF TokenValid(access_token, token_expiry, now, force)
    THEN [kind |-> "hit", token |-> access_token, exc |-> None, payload |-> None]
    ELSE IF "authenticate" \notin endpoints
    THEN [kind |-> "raise", token |-> None, payload |-> None,
          exc |-> Some(ConfigurationErrorSaying("authenticate endpoint missing in config."))]
    ELSE IF credentials.app_sky = <<>> \/ credentials.sec_key = <<>>
    THEN [kind |-> "raise", token |-> None, payload |-> None,
          exc |-> Some(ConfigurationErrorSaying("app_sky/sec_key credentials are required."))]
    ELSE [kind |-> "post", token |-> None, exc |-> None,
          payload |-> Some([appkey |-> credentials.app_sky,
                            secretkey |-> credentials.sec_key,
                            epoch |-> epoch])]

AuthStart(force) ==
    IF TokenValid(access_token, token_expiry, now, force)
    THEN [kind |-> "hit", token |-> access_token, exc |-> None, payload |-> None]
    ELSE IF credentials.app_sky = <<>> \/ credentials.sec_key = <<>>
    THEN [kind |-> "raise", token |-> None, payload |-> None,
          exc |-> Some(ConfigurationErrorSaying("app_sky/sec_key credentials are required."))]
    ELSE IF "authenticate" \notin endpoints
    THEN [kind |-> "raise", token |-> None, payload |-> None,
          exc |-> Some(ConfigurationErrorSaying("authenticate endpoint missing in config."))]
    ELSE [kind |-> "post", token |-> None, exc |-> None,
          payload |-> Some([appkey |-> credentials.app_sky,
                            secretkey |-> credentials.sec_key,
                            epoch |-> epoch])]

\* The token the server issues for a payload: bound to the credentials of the
\* request (and, as history, to the epoch in which the request was built).
IssuedToken(payload) == [appkey |-> payload.appkey, epoch |-> payload.epoch]

\* history: the token was obtained with credentials that update_credentials
\* has replaced by other ones since
Stale(tok) == tok.epoch # epoch /\ tok.appkey # credentials.app_sky

\* authenticate(), lines 94-115: from the response to the return.
AuthFinish(resp, payload, t) ==
    IF resp.kind = "neterr" \/ resp.status >= 400
    THEN [kind |-> "raise", exc |-> Some(AuthenticationErrorSaying("Kiwoom authentication failed")),
          token |-> None, expiry |-> None]
    ELSE IF ~HasToken(resp.body)
    THEN [kind |-> "raise", exc |-> Some(AuthenticationErrorSaying(AuthFailureText(resp.body))),
          token |-> None, expiry |-> None]
    ELSE IF t + resolve_expiry(resp.body, t) > DatetimeMax
    THEN \* line 110 raises OverflowError after line 109 has stored the token
         [kind |-> "overflow", exc |-> Some(Exc("OverflowError")),
          token |-> Some(IssuedToken(payload)), expiry |-> None]
    ELSE [kind |-> "ok", exc |-> None,
          token |-> Some(IssuedToken(payload)),
          expiry |-> Some(t + resolve_expiry(resp.body, t))]

AuthBody(has, ein, edt) ==
    [token_in |-> IF has THEN {"access_token"} ELSE {}, expires_in |-> ein, expires_dt |-> edt,
     return_code |-> None, return_msg |-> None]

AuthResponses ==
    {[kind |-> "neterr", status |-> 0, body |-> AuthBody(FALSE, None, None)],
     [kind |-> "http", status |-> 401, body |-> AuthBody(FALSE, None, None)],
     [kind |-> "http", status |-> 200, body |-> AuthBody(FALSE, None, None)]}
    \cup {[kind |-> "http", status |-> 200, body |-> AuthBody(TRUE, ein, None)] :
            ein \in {None, Some(JNum(60)), Some(JNum(90))}}

----------------------------------------------------------------------------
(* Inputs *)

RawAppKeys == {<<" ">>, <<" ", "a">>, <<"b", " ">>}
RawSecKeys == {<<>>, <<"s", " ">>}
RawAccounts == {<<" ", "1", "-", "2", " ">>}

Idle(t) == pc[t] \in {"idle", "done"}

Begin(t, op) ==
    [NoFrame EXCEPT !.op = op, !.afterUpdate = justUpdated,
                    !.hadToken = (access_token # None)]

----------------------------------------------------------------------------
(* Operations *)

\* update_credentials, lines 59-61: "Force token refresh on next request."
SessionKept == [token |-> access_token, expiry |-> token_expiry]

SessionTokenKept == [token |-> access_token, expiry |-> None]

SessionCleared == [token |-> None, expiry |-> None]

\* update_credentials, lines 54-61
update_credentials(t, app, sec, acct) ==
    /\ Idle(t)
    /\ epoch < MaxEpoch
    /\ credentials' = [app_sky |-> Strip(app), sec_key |-> Strip(sec),
                       account_no |-> Strip(acct)]
    /\ access_token' = SessionCleared.token
    /\ token_expiry' = SessionCleared.expiry
    /\ epoch' = epoch + 1
    /\ justUpdated' = TRUE
    /\ pc' = [pc EXCEPT ![t] = "done"]
    /\ frame' = [frame EXCEPT ![t] =
                    [Begin(t, "update_credentials") EXCEPT !.args = Some(<<app, sec, acct>>)]]
    /\ result' = [result EXCEPT ![t] = Returned(None, None, None)]
    /\ UNCHANGED <<desk, config, http_session, now>>

\* authenticate(force), lines 63-93: the call up to the cache hit, the
\* configuration error or the POST
authenticate(t, force) ==
    /\ Idle(t)
    /\ LET a == AuthStart(force)
           f == [Begin(t, "authenticate") EXCEPT !.force = force, !.snap = Some(Snapshot)]
       IN  /\ justUpdated' = FALSE
           /\ CASE a.kind = "hit" ->
                     /\ pc' = [pc EXCEPT ![t] = "done"]
                     /\ frame' = [frame EXCEPT ![t] = f]
                     /\ result' = [result EXCEPT ![t] = Returned(a.token, None, None)]
                [] a.kind = "raise" ->
                     /\ pc' = [pc EXCEPT ![t] = "done"]
                     /\ frame' = [frame EXCEPT ![t] = f]
                     /\ result' = [result EXCEPT ![t] = Raised(The(a.exc))]
                [] a.kind = "post" ->
                     /\ pc' = [pc EXCEPT ![t] = "auth_wait"]
                     /\ frame' = [frame EXCEPT ![t] =
                                    [f EXCEPT !.authReqs = 1, !.authPayload = a.payload]]
                     /\ result' = [result EXCEPT ![t] = NoResult]
    /\ UNCHANGED <<desk, credentials, access_token, token_expiry, config, http_session, now, epoch>>

\* authenticate, lines 94-115: the response of the POST arrives
authenticate_response(t, resp) ==
    /\ pc[t] = "auth_wait"
    /\ frame[t].op = "authenticate"
    /\ LET a == AuthFinish(resp, The(frame[t].authPayload), now)
       IN  IF a.kind = "ok"
           THEN /\ access_token' = a.token
                /\ token_expiry' = a.expiry
                /\ result' = [result EXCEPT ![t] = Returned(a.token, None, None)]
           ELSE IF a.kind = "overflow"
           THEN /\ access_token' = a.token
                /\ UNCHANGED token_expiry
                /\ result' = [result EXCEPT ![t] = Raised(The(a.exc))]
           ELSE /\ UNCHANGED <<access_token, token_expiry>>
                /\ result' = [result EXCEPT ![t] = Raised(The(a.exc))]
    /\ pc' = [pc EXCEPT ![t] = "done"]
    /\ frame' = [frame EXCEPT ![t].lastResp = Some(resp)]
    /\ UNCHANGED <<desk, credentials, config, http_session, now, epoch, justUpdated>>

----------------------------------------------------------------------------
(* Request Executor: _request_with_headers under
   @retry(stop=stop_after_attempt(3), wait=wait_exponential(...)) *)

EmptyKwargs == [k \in {} |-> None]

\* requests.Response.ok
ResponseOk(status) == status < 400

\* JSON values of a body: a list or an object, with its members
JList(v) == [t |-> "list", v |-> v]
JDict(v) == [t |-> "dict", v |-> v]
Truthy(j) == j.v # <<>>

\* dict.get(key, default)
Get(body, key, default) == IF key \in DOMAIN body THEN body[key] ELSE default

EmptyBody == [k \in {} |-> JList(<<>>)]

DataHeaders == {[cont_yn |-> "N", next_key |-> ""], [cont_yn |-> "Y", next_key |-> "k"]}
DataBodies == {EmptyBody, [output |-> JList(<<"row">>)]}

NetErr == [kind |-> "neterr", status |-> 0, text |-> "", json |-> None, headers |-> None]
HttpErr(status, text) == [kind |-> "http", status |-> status, text |-> text, json |-> None, headers |-> None]
HttpJson(body, hdrs) == [kind |-> "http", status |-> 200, text |-> "json", json |-> Some(body), headers |-> Some(hdrs)]

FailureResponses ==
    {NetErr, HttpErr(429, "slow"), HttpErr(500, "err"), HttpErr(200, "junk"),
     HttpErr(304, "")}

DataResponses ==
    FailureResponses \cup {HttpJson(b, h) : b \in DataBodies, h \in DataHeaders}

\* tenacity stop_after_attempt(3): no further attempt after this one
StopAfterFourth(attempt) == attempt >= MaxAttempts + 1

StopAfterAttempt(attempt) == attempt >= MaxAttempts

ShouldRetry(exc) == TRUE

\* What a step leaves behind: the thread's position, frame and result
Step(p, f, r) == [pc |-> p, frame |-> f, result |-> r]

\* wait_exponential(multiplier=0.5, min=0.5, max=4), in units of half a second
WaitMultiplier == 1
WaitMin == 1
WaitMax == 8

Smaller(a, b) == IF a < b THEN a ELSE b
Larger(a, b) == IF a > b THEN a ELSE b

\* tenacity before 5.0 raised the base to the attempt number itself
wait_exponential_from_attempt(attempt_number) ==
    Larger(Larger(0, WaitMin), Smaller(WaitMultiplier * 2 ^ attempt_number, WaitMax))

\* the sleep after the failed attempt attempt_number:
\* max(max(0, min), min(multiplier * 2 ** (attempt_number - 1), max))
wait_exponential(attempt_number) ==
    Larger(Larger(0, WaitMin), Smaller(WaitMultiplier * 2 ^ (attempt_number - 1), WaitMax))

\* The attempt raised exc: tenacity either sleeps and runs the next attempt,
\* or gives up
AttemptFailedResetsCursor(f, exc) ==
    LET g == [f EXCEPT !.lastExc = Some(exc), !.cursor = [cont_yn |-> "N", next_key |-> ""]]
    IN  IF StopAfterAttempt(f.attempt) THEN Step("done", g, Raised(RetryError(exc)))
        ELSE Step("backoff",
                  [g EXCEPT !.waits = Append(g.waits, wait_exponential(f.attempt))],
                  NoResult)

AttemptFailed(f, exc) ==
    LET g == [f EXCEPT !.lastExc = Some(exc)]
    IN  IF ~ShouldRetry(exc) THEN Step("done", g, Raised(exc))
        ELSE IF StopAfterAttempt(f.attempt) THEN Step("done", g, Raised(RetryError(exc)))
        ELSE Step("backoff",
                  [g EXCEPT !.waits = Append(g.waits, wait_exponential(f.attempt))],
                  NoResult)

\* the text of a token, as it stands in the Authorization header
TokenText(tok) == Join(tok.appkey) \o "#" \o Join(Str(tok.epoch))

\* dict.update(other)
Update(d, other) == other @@ d

build_headers_defaults_last(token, extra) ==
    Update(Update(("Authorization" :> ("Bearer " \o TokenText(token)))
                      @@ ("Content-Type" :> DefaultContentType),
                  extra),
           default_headers)

\* _build_headers, lines 160-168, once authenticate() has returned the token
build_headers(token, extra) ==
    Update(Update(("Authorization" :> ("Bearer " \o TokenText(token)))
                      @@ ("Content-Type" :> DefaultContentType),
                  default_headers),
           extra)

\* line 162: the token of the Authorization header is the value that the
\* authenticate() call of this attempt returned
HeaderTokenReused(f, returned) == IF f.bearer # None THEN f.bearer ELSE returned

HeaderToken(f, returned) == returned

\* lines 208-215: session.request goes out with the headers built
SendRequest(f, returned) ==
    LET bearer == HeaderToken(f, returned) IN
    Step("req_wait",
         [f EXCEPT !.dataReqs = f.dataReqs + 1, !.bearer = bearer,
                   !.sent_headers = Some(IF f.include_auth
                                         THEN build_headers(The(bearer), f.req_headers)
                                         ELSE f.req_headers),
                   !.sentStale = f.sentStale \/ \E tok \in bearer : Stale(tok),
                   !.sent = IF f.json_payload = None THEN f.sent
                            ELSE Append(f.sent, The(f.json_payload))],
         NoResult)

\* lines 201-205: one attempt, up to the first point where it blocks
AttemptStart(f0) ==
    LET f == [f0 EXCEPT !.lastExc = None, !.lastResp = None] IN
    IF f.endpoint = None THEN AttemptFailed(f, ConfigurationError)
    ELSE IF ~f.include_auth THEN SendRequest(f, None)
    ELSE LET a == AuthStart(FALSE)
         IN  CASE a.kind = "hit" -> SendRequest(f, a.token)
               [] a.kind = "raise" -> AttemptFailed(f, The(a.exc))
               [] a.kind = "post" ->
                    Step("auth_wait",
                         [f EXCEPT !.authReqs = f.authReqs + 1, !.authPayload = a.payload],
                         NoResult)

Notify(f, resp) ==
    [f EXCEPT !.notes = Append(f.notes, [status |-> resp.status, body |-> resp.text])]

Classify(f0, resp) ==
    LET f == [f0 EXCEPT !.lastResp = Some(resp)]
    IN  IF resp.kind = "neterr" THEN AttemptFailed(f, KiwoomAPIError(EmptyKwargs))
        ELSE IF resp.status = 429 THEN AttemptFailed(f, RateLimitError)
        ELSE IF ~ResponseOk(resp.status)
        THEN AttemptFailed(Notify(f, resp),
                           KiwoomAPIError([status_code |-> resp.status, payload |-> resp.text]))
        ELSE IF resp.json = None
        THEN AttemptFailed(f, KiwoomAPIError([payload |-> resp.text]))
        ELSE Step("done", f, Returned(None, resp.json, resp.headers))

----------------------------------------------------------------------------
(* Pagination: CandleCollector.run_full_history and get_account_overview *)

PagerOps == {"run_full_history", "run_full_history_market", "get_account_overview"}
ExecOps == {"execute", "place_order", "get_candles", "get_market_condition"} \cup PagerOps

\* str.upper() on the values a cont-yn header or an order side takes
Upper(x) ==
    CASE x = "y" -> "Y"
      [] x = "n" -> "N"
      [] x = "buy" -> "BUY"
      [] x = "sell" -> "SELL"
      [] OTHER -> x

\* str.lower() on the timeframe tokens
Lower(x) ==
    CASE x = "1M" -> "1m"
      [] x = "4H" -> "4h"
      [] x = "TICK" -> "tick"
      [] x = "T" -> "t"
      [] x = "Day" -> "day"
      [] OTHER -> x

\* _resolve_timeframe, lines 293-305
minute_map ==
    ("1m" :> "1") @@ ("3m" :> "3") @@ ("5m" :> "5") @@ ("10m" :> "10") @@ ("15m" :> "15")
    @@ ("30m" :> "30") @@ ("60m" :> "60") @@ ("1h" :> "60") @@ ("2h" :> "120")
    @@ ("4h" :> "240") @@ ("6h" :> "360")

\* lines 306-307: the tokens that name tick data
TickTokensWithoutAlias == {"tick"}

TickTokens == {"tick", "t"}

\* _resolve_timeframe, lines 290-310
resolve_timeframe(timeframe) ==
    LET tf == Lower(timeframe)
    IN  IF tf \in TickTokens THEN [tf_code |-> None, tr_id |-> "FHKST03010200"]
        ELSE IF tf \in DOMAIN minute_map
        THEN [tf_code |-> Some(minute_map[tf]), tr_id |-> "FHKST03010200"]
        ELSE [tf_code |-> None, tr_id |-> "HHDFS00000300"]

NoHeaders == [k \in {} |-> ""]

\* get_candles, lines 264-267, and get_market_condition, lines 284-287: the
\* pagination headers an adapter adds for a cursor
ContinuationHeadersNoKey(cont_yn, next_key) ==
    IF cont_yn = "Y" \/ next_key # "" THEN "cont-yn" :> cont_yn ELSE NoHeaders

ContinuationHeaders(cont_yn, next_key) ==
    IF cont_yn = "Y" \/ next_key # ""
    THEN ("cont-yn" :> cont_yn) @@ (IF next_key # "" THEN "next-key" :> next_key ELSE NoHeaders)
    ELSE NoHeaders

\* get_candles, lines 258-267: the parameters and headers of the request
CandleParams(symbol, count, tf_code) ==
    ("fid_cond_mrkt_div_code" :> "J") @@ ("fid_input_iscd" :> symbol) @@ ("count" :> count)
    @@ (IF tf_code # None /\ tf_code # Some("") THEN "fid_input_hour_1" :> The(tf_code)
        ELSE NoHeaders)

\* the headers each paginated operation passes for a cursor
\* (get_candles line 263, get_market_condition line 283, get_account_overview
\* line 370)
CursorHeaders(op, timeframe, cursor) ==
    IF op = "get_account_overview"
    THEN ("api-id" :> "kt00004") @@ ("cont-yn" :> cursor.cont_yn)
         @@ ("next-key" :> cursor.next_key)
    ELSE IF op = "run_full_history_market"
    THEN ("api-id" :> "ka10005") @@ ContinuationHeaders(cursor.cont_yn, cursor.next_key)
    ELSE ("tr_id" :> resolve_timeframe(timeframe).tr_id)
         @@ ContinuationHeaders(cursor.cont_yn, cursor.next_key)

\* the collector's timeframe: a minute timeframe for get_candles, one of
\* MARKET_TIMEFRAMES for get_market_condition
CollectorTimeframe(op) == IF op = "run_full_history_market" THEN "day" ELSE "1m"

\* candle_collector.py line 55, kiwoom_client.py line 392: the loop breaks
ShouldStopOnFlagOnly(cont, next_key) == cont # "Y"

ShouldStop(cont, next_key) == cont # "Y" \/ next_key = ""

\* a or b or ... : the first truthy JSON value, else the last
FirstTruthy(a, b) == IF Truthy(a) THEN a ELSE b

\* the rows of a page's body (candle_collector.py lines 43, 52;
\* kiwoom_client.py lines 379, 382)
RowsOf(op, body) ==
    IF op = "run_full_history" THEN Get(body, "output", JList(<<>>)).v
    ELSE IF op = "run_full_history_market" THEN Get(body, "stk_ddwkmm", JList(<<>>)).v
    ELSE LET holdings == FirstTruthy(Get(body, "output1", JList(<<>>)),
                          FirstTruthy(Get(body, "output", JList(<<>>)),
                          FirstTruthy(Get(body, "stk_acnt_evlt_prst", JList(<<>>)),
                                      JList(<<>>))))
         IN  IF holdings.t = "list" THEN holdings.v ELSE <<>>

\* aggregated.extend(rows)
PageRowsLastOnly(op, agg, body) == RowsOf(op, body)

PageRows(op, agg, body) == agg \o RowsOf(op, body)

\* kiwoom_client.py lines 380, 385-388
PageSummariesListsOnly(op, sums, body) ==
    IF op # "get_account_overview" THEN sums
    ELSE LET summary == FirstTruthy(Get(body, "output2", JList(<<>>)),
                         FirstTruthy(Get(body, "summary", JList(<<>>)), JList(<<>>)))
         IN  IF summary.t = "list" THEN sums \o summary.v ELSE sums

PageSummaries(op, sums, body) ==
    IF op # "get_account_overview" THEN sums
    ELSE LET summary == FirstTruthy(Get(body, "output2", JList(<<>>)),
                         FirstTruthy(Get(body, "summary", JList(<<>>)), JList(<<>>)))
         IN  IF summary.t = "list" THEN sums \o summary.v
             ELSE IF Truthy(summary) THEN Append(sums, summary)
             ELSE sums

\* what the paginated call returns
PagerResult(f) ==
    IF f.op = "run_full_history"
    THEN Returned(None, Some([output |-> f.aggregated]), None)
    ELSE IF f.op = "run_full_history_market"
    THEN Returned(None, Some([stk_ddwkmm |-> f.aggregated]), None)
    ELSE Returned(None,
                  Some([output1 |-> f.aggregated, output2 |-> f.summaries,
                        raw_pages |-> f.pagesOk, next_key |-> f.cursor.next_key]),
                  None)

\* for _ in range(max_pages): no iteration is left after this one
LoopExhaustedLate(page, max_pages) == page >= max_pages + 1

LoopExhausted(page, max_pages) == page >= max_pages

\* the page's request returned: the rest of the loop body, then the next
\* iteration up to its request, or the end of the call
\* (candle_collector.py lines 43-66, kiwoom_client.py lines 377-404)
PageReturned(f0, res) ==
    LET body == The(res.body)
        hdrs == The(res.headers)
        next_key == hdrs.next_key
        cont == Upper(IF hdrs.cont_yn = "" THEN "N" ELSE hdrs.cont_yn)
        f == [f0 EXCEPT !.aggregated = PageRows(f0.op, f0.aggregated, body),
                        !.summaries = PageSummaries(f0.op, f0.summaries, body),
                        !.pagesOk = Append(f0.pagesOk, body),
                        !.lastHeaders = Some(hdrs),
                        !.cursor = [cont_yn |-> IF f0.op = "get_account_overview"
                                                THEN f0.cursor.cont_yn ELSE cont,
                                    next_key |-> next_key]]
        next == [cont_yn |-> "Y", next_key |-> next_key]
    IN  IF ShouldStop(cont, next_key)
        THEN Step("done", f, PagerResult(f))
        ELSE IF LoopExhausted(f.page, f.max_pages)
        THEN LET g == [f EXCEPT !.warned = TRUE, !.cursor.cont_yn = "Y"]
             IN  Step("done", g, PagerResult(g))
        ELSE AttemptStart([f EXCEPT !.page = f.page + 1, !.cursor = next,
                                    !.req_headers =
                                        CursorHeaders(f.op, CollectorTimeframe(f.op), next),
                                    !.attempt = 1, !.waits = <<>>, !.authReqs = 0, !.dataReqs = 0,
                                    !.notes = <<>>, !.sent = <<>>])

\* a loop that would keep the pages it has when a page fails
ContinuePartialOnFailure(s) ==
    IF s.pc = "done" /\ s.frame.op \in PagerOps /\ s.result.status = "ok"
    THEN PageReturned(s.frame, s.result)
    ELSE IF s.pc = "done" /\ s.frame.op \in PagerOps /\ s.frame.page > 1
    THEN Step("done", s.frame, PagerResult(s.frame))
    ELSE s

Continue(s) ==
    IF s.pc = "done" /\ s.frame.op \in PagerOps /\ s.result.status = "ok"
    THEN PageReturned(s.frame, s.result)
    ELSE s

Set(t, s) ==
    /\ pc' = [pc EXCEPT ![t] = s.pc]
    /\ frame' = [frame EXCEPT ![t] = s.frame]
    /\ result' = [result EXCEPT ![t] = s.result]

----------------------------------------------------------------------------
(* DataSyncService (service.py) over CandleCollector (candle_collector.py).
   The locals of run() are the run field of the frame: the pairs still to
   do, the index of the pair in hand and the summary built so far. *)

MARKET_TIMEFRAMES == {"day", "1d", "daily"}

\* service.py lines 51-52: the pairs in the order of the nested loops
RECURSIVE PairsTimeframeMajor(_, _)
PairsTimeframeMajor(symbols, timeframes) ==
    IF timeframes = <<>> THEN <<>>
    ELSE [j \in 1..Len(symbols) |-> <<symbols[j], Head(timeframes)>>]
         \o PairsTimeframeMajor(symbols, Tail(timeframes))

RECURSIVE Pairs(_, _)
Pairs(symbols, timeframes) ==
    IF symbols = <<>> THEN <<>>
    ELSE [j \in 1..Len(timeframes) |-> <<Head(symbols), timeframes[j]>>]
         \o Pairs(Tail(symbols), timeframes)

\* CandleCollector(client, timeframe, count).run(symbol) or
\* .run_full_history(symbol), up to the first point where the call blocks
\* or ends (candle_collector.py lines 20-29 and 34-51)
CollectorCall(base, symbol, timeframe, count, full_history) ==
    LET use_market_api == Lower(timeframe) \in MARKET_TIMEFRAMES
        op == IF full_history
              THEN (IF use_market_api THEN "run_full_history_market" ELSE "run_full_history")
              ELSE (IF use_market_api THEN "get_market_condition" ELSE "get_candles")
        name == IF use_market_api THEN "market_condition" ELSE "candles"
        tf == resolve_timeframe(timeframe)
        f == [base EXCEPT
                 !.op = op, !.args = Some(timeframe), !.attempt = 1, !.include_auth = TRUE,
                 !.max_pages = IF full_history THEN DefaultMaxPages ELSE 0,
                 !.page = IF full_history THEN 1 ELSE 0,
                 !.params = IF use_market_api THEN None
                            ELSE Some(CandleParams(symbol, count, tf.tf_code)),
                 !.json_payload = IF use_market_api THEN Some([stk_cd |-> symbol]) ELSE None,
                 !.req_headers = IF use_market_api THEN "api-id" :> "ka10005"
                                 ELSE "tr_id" :> tf.tr_id,
                 !.endpoint = IF name \in endpoints THEN Some(name) ELSE None]
    IN  IF use_market_api /\ f.endpoint = None
        THEN Step("done", f, Raised(ConfigurationError))
        ELSE AttemptStart(f)

\* service.py line 91: except (KiwoomAPIError, MLStockError)
Caught(exc) ==
    exc.kind \in {"KiwoomAPIError", "ConfigurationError", "AuthenticationError", "RateLimitError"}

\* _generate_synthetic_candles, lines 95-117
generate_synthetic_candles(symbol, timeframe, count) ==
    [rows |-> count, symbol |-> symbol, timeframe |-> timeframe, synthetic |-> TRUE]

\* _fetch_candles, lines 87-93, for the outcome of the collector's call: the
\* candles returned, or nothing when the exception leaves the method
fetch_candles(outcome, symbol, timeframe, count) ==
    IF outcome.status = "ok"
    THEN Some([body |-> The(outcome.body), synthetic |-> FALSE])
    ELSE IF Caught(The(outcome.exc))
    THEN Some(generate_synthetic_candles(symbol, timeframe, count))
    ELSE None

\* run(), lines 51-59: the fetch of the pair in hand begins
FetchPair(f, run) ==
    LET pair == run.pairs[run.i]
        base == [NoFrame EXCEPT !.afterUpdate = f.afterUpdate, !.hadToken = f.hadToken,
                                !.run = Some(run)]
    IN  CollectorCall(base, pair[1], pair[2], run.count, run.full_history)

\* run(), lines 54-76, once the collector's call of the pair in hand has
\* ended: the except clause, the summary entry, and the next pair up to
\* the point where its fetch blocks
RECURSIVE RunContinue(_)
RunContinue(s) ==
    IF s.pc # "done" \/ s.frame.run = None THEN s
    ELSE LET run == The(s.frame.run)
             pair == run.pairs[run.i]
             candles == fetch_candles(s.result, pair[1], pair[2], run.count)
         IN  IF candles = None THEN s
             ELSE LET \* the entry of the summary, with the mark of the candles
                      \* that save_raw stored for it
                      entry == [symbol |-> pair[1], timeframe |-> pair[2],
                                synthetic |-> The(candles).synthetic]
                      after == [run EXCEPT !.synced = Append(run.synced, entry)]
                  IN  IF run.i = Len(run.pairs)
                      THEN Step("done", [s.frame EXCEPT !.run = Some(after)],
                                Returned(None, Some([synced |-> after.synced]), None))
                      ELSE LET next == [after EXCEPT !.i = run.i + 1,
                                                     !.fetched = Append(run.fetched, run.pairs[run.i + 1])]
                           IN  RunContinue(FetchPair(s.frame, next))

Apply(t, s) == Set(t, RunContinue(Continue(s)))

\* CandleCollector.run_full_history(symbol, max_pages), with use_market_api
\* chosen by the collector's timeframe
run_full_history(t, max_pages, market) ==
    /\ Idle(t)
    /\ justUpdated' = FALSE
    /\ LET op == IF market THEN "run_full_history_market" ELSE "run_full_history"
           name == IF market THEN "market_condition" ELSE "candles"
           f == [Begin(t, op) EXCEPT
                    !.max_pages = max_pages, !.page = 1, !.attempt = 1,
                    !.include_auth = TRUE,
                    !.params = IF market THEN None
                               ELSE Some(CandleParams("005930", 200,
                                            resolve_timeframe(CollectorTimeframe(op)).tf_code)),
                    !.json_payload = IF market THEN Some([stk_cd |-> "005930"]) ELSE None,
                    !.req_headers = CursorHeaders(op, CollectorTimeframe(op), NoFrame.cursor),
                    !.endpoint = IF name \in endpoints THEN Some(name) ELSE None]
       IN  IF max_pages = 0
           THEN LET g == [f EXCEPT !.page = 0, !.attempt = 0, !.warned = TRUE]
                IN  Set(t, Step("done", g, PagerResult(g)))
           ELSE IF market /\ f.endpoint = None
           THEN Set(t, Step("done", f, Raised(ConfigurationError)))
           ELSE Apply(t, AttemptStart(f))
    /\ UNCHANGED <<desk, credentials, access_token, token_expiry, config, http_session, now, epoch>>

\* DataSyncService.run(config), lines 48-76: up to the point where the
\* first fetch blocks, or to the end
service_run(t, symbols, timeframes, count, full_history) ==
    /\ justUpdated' = FALSE
    /\ LET pairs == Pairs(symbols, timeframes)
           f == Begin(t, "run")
       IN  IF pairs = <<>>
           THEN Set(t, Step("done",
                            [f EXCEPT !.run = Some([config |-> <<symbols, timeframes>>,
                                                    pairs |-> pairs, i |-> 0, synced |-> <<>>,
                                                    fetched |-> <<>>, count |-> count,
                                                    full_history |-> full_history])],
                            Returned(None, Some([synced |-> <<>>]), None)))
           ELSE Set(t, RunContinue(FetchPair(f, [config |-> <<symbols, timeframes>>,
                                                 pairs |-> pairs, i |-> 1, synced |-> <<>>,
                                                 fetched |-> <<pairs[1]>>, count |-> count,
                                                 full_history |-> full_history])))
    /\ UNCHANGED <<desk, credentials, access_token, token_expiry, config, http_session, now, epoch>>

\* a caller that is not in another call of the client runs the service
run(t, symbols, timeframes, count, full_history) ==
    /\ Idle(t)
    /\ service_run(t, symbols, timeframes, count, full_history)

\* _split_account, lines 238-246
IsDigit(ch) == ch \in {"0", "1", "2", "3", "4", "5", "6", "7", "8", "9"}

split_account_nopad(account_no) ==
    LET digits == SelectSeq(account_no, IsDigit)
    IN  IF Len(digits) < 8 THEN [ok |-> FALSE, cano |-> <<>>, product_code |-> <<>>]
        ELSE IF Len(digits) = 8 THEN [ok |-> TRUE, cano |-> digits, product_code |-> <<"0", "1">>]
        ELSE [ok |-> TRUE, cano |-> SubSeq(digits, 1, 8),
              product_code |-> SubSeq(digits, 9, IF Len(digits) = 9 THEN 9 ELSE 10)]

split_account_lenient(account_no) ==
    LET digits == SelectSeq(account_no, IsDigit)
    IN  IF Len(digits) <= 8 THEN [ok |-> TRUE, cano |-> digits, product_code |-> <<"0", "1">>]
        ELSE IF Len(digits) = 9
        THEN [ok |-> TRUE, cano |-> SubSeq(digits, 1, 8), product_code |-> <<"0", digits[9]>>]
        ELSE [ok |-> TRUE, cano |-> SubSeq(digits, 1, 8), product_code |-> SubSeq(digits, 9, 10)]

split_account(account_no) ==
    LET digits == SelectSeq(account_no, IsDigit)
    IN  IF Len(digits) < 8 THEN [ok |-> FALSE, cano |-> <<>>, product_code |-> <<>>]
        ELSE IF Len(digits) = 8 THEN [ok |-> TRUE, cano |-> digits, product_code |-> <<"0", "1">>]
        ELSE IF Len(digits) = 9
        THEN [ok |-> TRUE, cano |-> SubSeq(digits, 1, 8), product_code |-> <<"0", digits[9]>>]
        ELSE [ok |-> TRUE, cano |-> SubSeq(digits, 1, 8), product_code |-> SubSeq(digits, 9, 10)]

\* get_account_overview, lines 349-404
get_account_overview(t) ==
    /\ Idle(t)
    /\ justUpdated' = FALSE
    /\ LET name == IF "account_overview" \in endpoints THEN Some("account_overview")
                   ELSE IF "balance" \in endpoints THEN Some("balance") ELSE None
           acct == split_account(credentials.account_no)
           f == [Begin(t, "get_account_overview") EXCEPT
                    !.max_pages = AccountOverviewPages, !.page = 1, !.attempt = 1,
                    !.include_auth = TRUE, !.endpoint = name, !.snap = Some(Snapshot)]
       IN  IF name = None \/ ~acct.ok
           THEN Set(t, Step("done", f, Raised(ConfigurationError)))
           ELSE Apply(t, AttemptStart(
                    [f EXCEPT !.json_payload =
                        Some([cano |-> acct.cano, acnt_prdt_cd |-> acct.product_code,
                              qry_tp |-> "0", dmst_stex_tp |-> "KRX"]),
                              !.req_headers =
                                  CursorHeaders("get_account_overview", "", NoFrame.cursor)]))
    /\ UNCHANGED <<desk, credentials, access_token, token_expiry, config, http_session, now, epoch>>


\* place_order, lines 336-344: the JSON body of the order
OrderPayload(acct, symbol, side, quantity, price, order_type) ==
    [CANO |-> acct.cano, ACNT_PRDT_CD |-> acct.product_code, PDNO |-> symbol,
     ORD_DVSN |-> order_type, ORD_QTY |-> Str(quantity),
     ORD_UNPR |-> IF price = None \/ price = Some(0) THEN Str(0) ELSE Str(The(price)),
     ORD_DVSN_CD |-> Upper(side)]

\* place_order, lines 324-347
place_order(t, symbol, side, quantity, price, order_type) ==
    /\ Idle(t)
    /\ justUpdated' = FALSE
    /\ LET acct == split_account(credentials.account_no)
           f == [Begin(t, "place_order") EXCEPT
                    !.attempt = 1, !.include_auth = TRUE, !.snap = Some(Snapshot),
                    !.endpoint = IF "order" \in endpoints THEN Some("order") ELSE None]
       IN  IF ~acct.ok
           THEN Set(t, Step("done", f, Raised(ConfigurationError)))
           ELSE Apply(t, AttemptStart(
                    [f EXCEPT !.json_payload =
                        Some(OrderPayload(acct, symbol, side, quantity, price, order_type))]))
    /\ UNCHANGED <<desk, credentials, access_token, token_expiry, config, http_session, now, epoch>>

\* revoke_token, lines 426-444, up to the logout POST or, without one, to
\* the end.  What the call does first: "noop", "post" or "clear".
RevokeStartIgnoringEndpoint == IF access_token = None THEN "noop" ELSE "post"

RevokeStart ==
    IF access_token = None THEN "noop"
    ELSE IF "logout" \in endpoints THEN "post"
    ELSE "clear"

\* revoke_token, lines 443-444, after a logout POST that ended as resp
RevokedOnSuccessOnly(resp) ==
    IF resp.kind = "http" /\ ResponseOk(resp.status)
    THEN [token |-> None, expiry |-> None]
    ELSE [token |-> access_token, expiry |-> token_expiry]

Revoked(resp) == [token |-> None, expiry |-> None]

revoke_token(t) ==
    /\ Idle(t)
    /\ justUpdated' = FALSE
    /\ LET f == [Begin(t, "revoke_token") EXCEPT !.snap = Some(Snapshot)]
       IN  CASE RevokeStart = "noop" ->
                    /\ Set(t, Step("done", f, Returned(None, None, None)))
                    /\ UNCHANGED <<access_token, token_expiry>>
             [] RevokeStart = "post" ->
                    /\ Set(t, Step("revoke_wait",
                                   [f EXCEPT !.logoutReqs = 1, !.bearer = access_token],
                                   NoResult))
                    /\ UNCHANGED <<access_token, token_expiry>>
             [] RevokeStart = "clear" ->
                    /\ Set(t, Step("done", f, Returned(None, None, None)))
                    /\ access_token' = None
                    /\ token_expiry' = None
    /\ UNCHANGED <<desk, credentials, config, http_session, now, epoch>>

\* close, line 448: "if self._closed: return"
NeverClosed == FALSE

AlreadyClosed == closed

\* close, lines 446-452: up to the logout POST of revoke_token or, without
\* one, to the end
close(t) ==
    /\ Idle(t)
    /\ justUpdated' = FALSE
    /\ LET f == [Begin(t, "close") EXCEPT !.snap = Some(Snapshot), !.args = Some(closed)]
       IN  IF AlreadyClosed
           THEN /\ Set(t, Step("done", f, Returned(None, None, None)))
                /\ UNCHANGED <<access_token, token_expiry, closed, session_closes>>
           ELSE IF RevokeStart = "post"
           THEN /\ Set(t, Step("revoke_wait",
                               [f EXCEPT !.logoutReqs = 1, !.bearer = access_token],
                               NoResult))
                /\ UNCHANGED <<access_token, token_expiry, closed, session_closes>>
           ELSE /\ Set(t, Step("done", f, Returned(None, None, None)))
                /\ access_token' = None
                /\ token_expiry' = None
                /\ session_closes' = session_closes + 1
                /\ closed' = TRUE
    /\ UNCHANGED <<desk, credentials, config, now, epoch>>

\* the logout POST of revoke_token returns or fails: lines 439-444 and, when
\* close() made the call, lines 451-452
revoke_response(t, resp) ==
    /\ pc[t] = "revoke_wait"
    /\ access_token' = Revoked(resp).token
    /\ token_expiry' = Revoked(resp).expiry
    /\ IF frame[t].op = "close"
       THEN /\ session_closes' = session_closes + 1
            /\ closed' = TRUE
       ELSE UNCHANGED <<closed, session_closes>>
    /\ pc' = [pc EXCEPT ![t] = "done"]
    /\ frame' = [frame EXCEPT ![t].lastResp = Some(resp)]
    /\ result' = [result EXCEPT ![t] = Returned(None, None, None)]
    /\ UNCHANGED <<desk, credentials, config, now, epoch, justUpdated>>

\* KiwoomRESTClient(settings), lines 27-47
KiwoomRESTClient(t) ==
    /\ base_url = None
    /\ pc[t] = "idle"
    /\ LET url == resolve_base_url(kiwoom_cfg, is_live)
       IN  /\ base_url' = Some(url)
           /\ default_headers' = normalize_headers(kiwoom_cfg.default_headers)
           /\ result' = [result EXCEPT ![t] =
                            IF url = "" THEN Raised(ConfigurationError)
                            ELSE Returned(None, None, None)]
    /\ access_token' = None
    /\ token_expiry' = None
    /\ closed' = FALSE
    /\ pc' = [pc EXCEPT ![t] = "done"]
    /\ frame' = [frame EXCEPT ![t] = [NoFrame EXCEPT !.op = "KiwoomRESTClient"]]
    /\ UNCHANGED <<desk, credentials, endpoints, is_live, kiwoom_cfg, session_closes, now,
                   epoch, justUpdated>>

\* get_candles, lines 248-268
get_candles(t, symbol, timeframe, count, cont_yn, next_key) ==
    /\ Idle(t)
    /\ justUpdated' = FALSE
    /\ LET tf == resolve_timeframe(timeframe)
       IN  Apply(t, AttemptStart(
                [Begin(t, "get_candles") EXCEPT
                    !.args = Some(timeframe), !.attempt = 1, !.include_auth = TRUE,
                    !.endpoint = IF "candles" \in endpoints THEN Some("candles") ELSE None,
                    !.params = Some(CandleParams(symbol, count, tf.tf_code)),
                    !.req_headers = ("tr_id" :> tf.tr_id) @@ ContinuationHeaders(cont_yn, next_key)]))
    /\ UNCHANGED <<desk, credentials, access_token, token_expiry, config, http_session, now, epoch>>

\* _request_with_headers(method, endpoint, ..., include_auth): the call and
\* its first attempt
request_with_headers(t, endpoint, include_auth) ==
    /\ Idle(t)
    /\ justUpdated' = FALSE
    /\ Apply(t, AttemptStart([Begin(t, "execute") EXCEPT
                                !.endpoint = endpoint, !.include_auth = include_auth,
                                !.attempt = 1]))
    /\ UNCHANGED <<desk, credentials, access_token, token_expiry, config, http_session, now, epoch>>

\* _request(method, endpoint, headers=..., include_auth=...), lines 170-188:
\* the call of _request_with_headers and its first attempt
request(t, endpoint, headers, include_auth) ==
    /\ Idle(t)
    /\ justUpdated' = FALSE
    /\ Apply(t, AttemptStart([Begin(t, "execute") EXCEPT
                                !.endpoint = endpoint, !.include_auth = include_auth,
                                !.req_headers = headers, !.attempt = 1]))
    /\ UNCHANGED <<desk, credentials, access_token, token_expiry, config, http_session, now, epoch>>

\* the sleep between two attempts ends and the next attempt starts
retry_attempt(t) ==
    /\ pc[t] = "backoff"
    /\ Apply(t, AttemptStart([frame[t] EXCEPT !.attempt = frame[t].attempt + 1]))
    /\ UNCHANGED <<desk, credentials, access_token, token_expiry, config, http_session, now, epoch, justUpdated>>

\* _build_headers -> authenticate(): the response of the token POST arrives
\* while an attempt builds its headers
build_headers_response(t, resp) ==
    /\ pc[t] = "auth_wait"
    /\ frame[t].op \in ExecOps
    /\ LET a == AuthFinish(resp, The(frame[t].authPayload), now)
       IN  IF a.kind = "ok"
           THEN /\ access_token' = a.token
                /\ token_expiry' = a.expiry
                /\ Apply(t, SendRequest(frame[t], a.token))
           ELSE IF a.kind = "overflow"
           THEN /\ access_token' = a.token
                /\ UNCHANGED token_expiry
                /\ Apply(t, AttemptFailed(frame[t], The(a.exc)))
           ELSE /\ UNCHANGED <<access_token, token_expiry>>
                /\ Apply(t, AttemptFailed(frame[t], The(a.exc)))
    /\ UNCHANGED <<desk, credentials, config, http_session, now, epoch, justUpdated>>

\* the response of session.request arrives
request_response(t, resp) ==
    /\ pc[t] = "req_wait"
    /\ Apply(t, Classify(frame[t], resp))
    /\ UNCHANGED <<desk, credentials, access_token, token_expiry, config, http_session, now, epoch, justUpdated>>

\* The clock
Tick ==
    /\ \E d \in TickSteps : now + d <= MaxTicks * d /\ now' = now + d
    /\ UNCHANGED <<desk, credentials, access_token, token_expiry, config, http_session, epoch,
                   justUpdated, pc, frame, result>>

----------------------------------------------------------------------------
(* Specification: one caller *)

EndpointConfigs == {{"authenticate", "candles"}, {"candles"}}

Init ==
    /\ credentials = [app_sky |-> <<>>, sec_key |-> <<>>, account_no |-> <<>>]
    /\ access_token = None
    /\ risk = NoLimits
    /\ window = NoWindow
    /\ events = <<>>
    /\ token_expiry = None
    /\ endpoints \in EndpointConfigs
    /\ Constructed
    /\ now = 0
    /\ epoch = 0
    /\ justUpdated = FALSE
    /\ pc = [t \in Threads |-> "idle"]
    /\ frame = [t \in Threads |-> NoFrame]
    /\ result = [t \in Threads |-> NoResult]

Next ==
    \/ \E a \in RawAppKeys, s \in RawSecKeys, n \in RawAccounts :
          update_credentials("ui", a, s, n)
    \/ \E force \in BOOLEAN : authenticate("ui", force)
    \/ \E r \in AuthResponses : authenticate_response("ui", r)
    \/ \E e \in {None, Some("candles")}, ia \in BOOLEAN : request_with_headers("ui", e, ia)
    \/ retry_attempt("ui")
    \/ \E r \in AuthResponses : build_headers_response("ui", r)
    \/ \E r \in DataResponses : request_response("ui", r)
    \/ Tick

Spec == Init /\ [][Next]_vars

----------------------------------------------------------------------------
(* Specification: the form's thread and a sync worker share one client.
   handle_get_token (UI thread) calls update_credentials and then
   authenticate(force=True); the worker of handle_sync_selected issues
   authenticated requests through the same client object. *)

RaceAppKeys == {<<"a">>, <<"b">>}
RaceDataResponses == {NetErr, HttpJson(<<"row">>, [cont_yn |-> "N", next_key |-> ""])}
RaceAuthResponses == {r \in AuthResponses : r.kind = "neterr" \/ r.body.expires_in = Some(JNum(90))}

NextRace ==
    \/ \E a \in RaceAppKeys : update_credentials("ui", a, <<"s">>, <<"1">>)
    \/ authenticate("ui", TRUE)
    \/ \E r \in RaceAuthResponses : authenticate_response("ui", r)
    \/ request_with_headers("worker", Some("candles"), TRUE)
    \/ retry_attempt("worker")
    \/ \E r \in RaceAuthResponses : build_headers_response("worker", r)
    \/ \E r \in RaceDataResponses : request_response("worker", r)
    \/ Tick

SpecRace == Init /\ [][NextRace]_vars

----------------------------------------------------------------------------
(* Specification: paginated reads by one caller whose credentials come from
   the environment.  The upstream answers freely on the first MaxDataPages
   pages of a call; on later pages it answers an empty page and either goes
   on (cont-yn=Y with a next key) or stops. *)

AllEndpoints == {"authenticate", "candles", "market_condition", "account_overview"}

EnvAccount == <<"1", "2", "3", "4", "5", "6", "7", "8", "-", "0", "1">>

PageHeaders ==
    {[cont_yn |-> "N", next_key |-> ""], [cont_yn |-> "Y", next_key |-> "k"],
     [cont_yn |-> "y", next_key |-> "k2"], [cont_yn |-> "Y", next_key |-> ""],
     [cont_yn |-> "", next_key |-> "k"]}

PageBodies(name) ==
    IF name = "candles" THEN {EmptyBody, [output |-> JList(<<"c">>)]}
    ELSE IF name = "market_condition" THEN {EmptyBody, [stk_ddwkmm |-> JList(<<"m">>)]}
    ELSE {EmptyBody,
          [output1 |-> JList(<<"h1">>), output2 |-> JList(<<"s1">>)],
          [stk_acnt_evlt_prst |-> JList(<<"h2">>), summary |-> JDict(<<"s2">>)]}

PageResponses(t) ==
    IF frame[t].page <= MaxDataPages
    THEN FailureResponses
         \cup {HttpJson(b, h) : b \in UNION {PageBodies(n) : n \in frame[t].endpoint},
                                 h \in PageHeaders}
    ELSE {HttpJson(EmptyBody, h) :
            h \in {[cont_yn |-> "N", next_key |-> ""], [cont_yn |-> "Y", next_key |-> "k"]}}

PageAuthResponses ==
    {r \in AuthResponses : r.kind = "neterr" \/ (HasToken(r.body) /\ r.body.expires_in # Some(JNum(90)))}

InitPage ==
    /\ credentials = [app_sky |-> <<"a">>, sec_key |-> <<"s">>, account_no |-> EnvAccount]
    /\ access_token = None
    /\ risk = NoLimits
    /\ window = NoWindow
    /\ events = <<>>
    /\ token_expiry = None
    /\ endpoints = AllEndpoints
    /\ Constructed
    /\ now = 0
    /\ epoch = 0
    /\ justUpdated = FALSE
    /\ pc = [t \in Threads |-> "idle"]
    /\ frame = [t \in Threads |-> NoFrame]
    /\ result = [t \in Threads |-> NoResult]

NextPage ==
    \/ \E m \in 0..MaxPagesArg, market \in BOOLEAN : run_full_history("ui", m, market)
    \/ get_account_overview("ui")
    \/ retry_attempt("ui")
    \/ \E r \in PageAuthResponses : build_headers_response("ui", r)
    \/ \E r \in PageResponses("ui") : request_response("ui", r)
    \/ revoke_token("ui")

SpecPage == InitPage /\ [][NextPage]_vars

----------------------------------------------------------------------------
(* Specification: orders and the account overview for the account numbers a
   user may have configured. *)

AccountNumbers ==
    {<<>>,
     <<"1", "2", "3", "-", "4", "5", "6", "7">>,
     <<"1", "2", "3", "4", "-", "5", "6", "7", "8">>,
     <<"1", "2", "3", "4", "5", "6", "7", "8", "-", "9">>,
     EnvAccount,
     <<"1", "2", "3", "4", "5", "6", "7", "8", "9", "0", "5">>}

AccountEndpoints == {AllEndpoints \cup {"order"}, {"authenticate"}}

AccountResponses ==
    FailureResponses \cup {HttpJson(EmptyBody, [cont_yn |-> "N", next_key |-> ""])}

InitAccount ==
    /\ credentials \in [app_sky : {<<"a">>}, sec_key : {<<"s">>}, account_no : AccountNumbers]
    /\ access_token = None
    /\ risk = NoLimits
    /\ window = NoWindow
    /\ events = <<>>
    /\ token_expiry = None
    /\ endpoints \in AccountEndpoints
    /\ Constructed
    /\ now = 0
    /\ epoch = 0
    /\ justUpdated = FALSE
    /\ pc = [t \in Threads |-> "idle"]
    /\ frame = [t \in Threads |-> NoFrame]
    /\ result = [t \in Threads |-> NoResult]

NextAccount ==
    \/ \E side \in {"buy", "sell"}, price \in {None, Some(70)} :
          place_order("ui", "005930", side, 10, price, "00")
    \/ get_account_overview("ui")
    \/ authenticate("ui", FALSE)
    \/ \E r \in PageAuthResponses : authenticate_response("ui", r)
    \/ retry_attempt("ui")
    \/ \E r \in PageAuthResponses : build_headers_response("ui", r)
    \/ \E r \in AccountResponses : request_response("ui", r)

SpecAccount == InitAccount /\ [][NextAccount]_vars

----------------------------------------------------------------------------
(* Specification: the life of a session.  One caller authenticates, sends
   requests, revokes the token and closes the client, in any order. *)

LifeEndpoints == {{"authenticate", "candles", "logout"}, {"authenticate", "candles"}}

LogoutResponses == {NetErr, HttpErr(500, "err"), HttpErr(200, "")}

LifeAuthResponses == {r \in AuthResponses : r.kind = "neterr" \/ r.body.expires_in = Some(JNum(90))}

LifeDataResponses == {NetErr, HttpJson(EmptyBody, [cont_yn |-> "N", next_key |-> ""])}

InitLife ==
    /\ credentials = [app_sky |-> <<"a">>, sec_key |-> <<"s">>, account_no |-> EnvAccount]
    /\ access_token = None
    /\ risk = NoLimits
    /\ window = NoWindow
    /\ events = <<>>
    /\ token_expiry = None
    /\ endpoints \in LifeEndpoints
    /\ Constructed
    /\ now = 0
    /\ epoch = 0
    /\ justUpdated = FALSE
    /\ pc = [t \in Threads |-> "idle"]
    /\ frame = [t \in Threads |-> NoFrame]
    /\ result = [t \in Threads |-> NoResult]

NextLife ==
    \/ update_credentials("ui", <<"b">>, <<"s">>, EnvAccount)
    \/ \E force \in BOOLEAN : authenticate("ui", force)
    \/ \E r \in LifeAuthResponses : authenticate_response("ui", r)
    \/ request_with_headers("ui", Some("candles"), TRUE)
    \/ retry_attempt("ui")
    \/ \E r \in LifeAuthResponses : build_headers_response("ui", r)
    \/ \E r \in LifeDataResponses : request_response("ui", r)
    \/ revoke_token("ui")
    \/ close("ui")
    \/ \E r \in LogoutResponses : revoke_response("ui", r)
    \/ Tick

SpecLife == InitLife /\ [][NextLife]_vars

----------------------------------------------------------------------------
(* Specification: construction of the client for the configurations that
   data_sources.yaml may hold. *)

Tables(live_url, paper_url) ==
    UNION {[D -> {""}] \cup {[k \in D |-> IF k = "live" THEN live_url ELSE paper_url]} :
             D \in SUBSET {"live", "paper"}}
    \cup {[live |-> live_url, paper |-> ""], [live |-> "", paper |-> paper_url]}

BaseUrlValues ==
    {CfgAbsent, CfgStr(""), CfgStr("https://flat.x")}
    \cup {CfgTable(d) : d \in Tables("https://live.b", "https://paper.b")}

HostsValues ==
    {CfgAbsent, CfgStr("https://hosts.x")}
    \cup {CfgTable(d) : d \in Tables("https://api.x", "https://mock.x")}

InitConfig ==
    /\ credentials = [app_sky |-> <<>>, sec_key |-> <<>>, account_no |-> <<>>]
    /\ access_token = None
    /\ risk = NoLimits
    /\ window = NoWindow
    /\ events = <<>>
    /\ token_expiry = None
    /\ endpoints = AllEndpoints
    /\ is_live \in BOOLEAN
    /\ kiwoom_cfg \in [base_url : BaseUrlValues, hosts : HostsValues,
                        default_headers : {NoHeaderTable}]
    /\ base_url = None
    /\ default_headers = EmptyDict
    /\ closed = FALSE
    /\ session_closes = 0
    /\ now = 0
    /\ epoch = 0
    /\ justUpdated = FALSE
    /\ pc = [t \in Threads |-> "idle"]
    /\ frame = [t \in Threads |-> NoFrame]
    /\ result = [t \in Threads |-> NoResult]

NextConfig == KiwoomRESTClient("ui")

SpecConfig == InitConfig /\ [][NextConfig]_vars

----------------------------------------------------------------------------
(* Specification: single candle requests for the timeframes a collector may
   be configured with. *)

Timeframes ==
    {"1m", "3m", "5m", "10m", "15m", "30m", "60m", "1h", "2h", "4h", "6h",
     "1M", "4H", "tick", "TICK", "t", "T", "day", "Day", "1w", ""}

NextCandles ==
    \/ \E tf \in Timeframes : get_candles("ui", "005930", tf, 200, "N", "")
    \/ retry_attempt("ui")
    \/ \E r \in PageAuthResponses : build_headers_response("ui", r)
    \/ \E r \in AccountResponses : request_response("ui", r)

SpecCandles == InitPage /\ [][NextCandles]_vars

----------------------------------------------------------------------------
(* Claims *)

Configured ==
    /\ credentials.app_sky # <<>>
    /\ credentials.sec_key # <<>>
    /\ "authenticate" \in endpoints

Finished(t, op) == pc[t] = "done" /\ frame[t].op = op

\* C1: authenticate(force=false) issues no authentication request and
\* returns the cached token when a token is cached whose expiry is strictly
\* later than now + 60 s; otherwise (no token, or expiry <= now + 60 s), with
\* credentials and authenticate endpoint configured, it issues one.
C1_CacheHitIffFresh ==
    \A t \in Threads :
        (frame[t].op = "authenticate" /\ ~frame[t].force /\ pc[t] \in {"auth_wait", "done"}) =>
            LET s == The(frame[t].snap)
                fresh == /\ s.token # {}
                         /\ s.expiry # {}
                         /\ \A e \in s.expiry : e > s.now + TokenMargin
            IN  /\ fresh => /\ frame[t].authReqs = 0
                            /\ pc[t] = "done"
                            /\ result[t].status = "ok"
                            /\ result[t].token = s.token
                /\ (~fresh /\ Configured) => frame[t].authReqs = 1

C1_Witness ==
    /\ Finished("ui", "authenticate")
    /\ ~frame["ui"].force
    /\ frame["ui"].authReqs = 0
    /\ result["ui"].status = "ok"
    /\ \E e \in The(frame["ui"].snap).expiry : e = The(frame["ui"].snap).now + 90

\* C2 (as stated): the authenticate() call that immediately follows an
\* update_credentials always performs a fresh network authentication with
\* the new credentials.
C2_AlwaysFreshRequest ==
    \A t \in Threads :
        (Finished(t, "authenticate") /\ frame[t].afterUpdate) =>
            /\ frame[t].authReqs = 1
            /\ \A pl \in frame[t].authPayload :
                  pl.appkey = credentials.app_sky /\ pl.secretkey = credentials.sec_key

\* C2 (amended): the authenticate() call that immediately follows an
\* update_credentials, forced or not, never returns a token issued under
\* earlier credentials: with non-empty app key and secret key and a
\* configured authenticate endpoint it sends exactly one authentication
\* request, built from the new credentials, and returns only the token of
\* that request; otherwise it raises ConfigurationError and sends nothing.
C2_FreshOrConfigurationError ==
    \A t \in Threads :
        (frame[t].op = "authenticate" /\ frame[t].afterUpdate /\ pc[t] \in {"auth_wait", "done"}) =>
            IF Configured
            THEN /\ frame[t].authReqs = 1
                 /\ \A pl \in frame[t].authPayload :
                       /\ pl.appkey = credentials.app_sky
                       /\ pl.secretkey = credentials.sec_key
                       /\ pl.epoch = epoch
                 /\ \A tok \in result[t].token :
                       tok.epoch = epoch /\ tok.appkey = credentials.app_sky
            ELSE /\ frame[t].authReqs = 0
                 /\ pc[t] = "done"
                 /\ result[t].status = "raise"
                 /\ The(result[t].exc).kind = "ConfigurationError"

C2_Witness ==
    /\ Finished("ui", "authenticate")
    /\ frame["ui"].afterUpdate
    /\ epoch = 2
    /\ ~frame["ui"].force
    /\ result["ui"].status = "ok"
    /\ \E tok \in result["ui"].token : tok.epoch = 2

\* C3: update_credentials stores the trimmed app key, secret key and account
\* number and leaves the client unauthenticated (token and expiry absent),
\* whatever the state before and whatever the new values.
IsTrimOf(out, raw) ==
    /\ \E i \in 1..(Len(raw) + 1) :
          /\ i + Len(out) - 1 <= Len(raw)
          /\ out = SubSeq(raw, i, i + Len(out) - 1)
          /\ \A k \in 1..Len(raw) :
                (k < i \/ k > i + Len(out) - 1) => raw[k] = " "
    /\ out # <<>> => (out[1] # " " /\ out[Len(out)] # " ")

C3_UpdateClearsSession ==
    \A t \in Threads :
        Finished(t, "update_credentials") =>
            LET a == The(frame[t].args)
            IN  /\ access_token = {}
                /\ token_expiry = {}
                /\ IsTrimOf(credentials.app_sky, a[1])
                /\ IsTrimOf(credentials.sec_key, a[2])
                /\ IsTrimOf(credentials.account_no, a[3])

C3_Witness ==
    /\ Finished("ui", "update_credentials")
    /\ frame["ui"].hadToken
    /\ credentials.app_sky = <<>>
    /\ credentials.account_no = <<"1", "-", "2">>
    /\ access_token = {}

\* A response that the claims call a failed attempt: a network error, 429,
\* another non-2xx status, or a body that is no JSON
FailedResponse(r) ==
    \/ r.kind = "neterr"
    \/ r.status \notin 200..299
    \/ r.json = {}

\* C6: one execute call makes at most 3 attempts whatever the failure class
\* (network error, 429, other non-2xx, unparseable body): it goes on only
\* after a failed attempt, it stops at the first successful attempt and
\* returns that attempt's body and headers, and the third failure ends the
\* call with the error, without a fourth attempt.
C6_AtMostThreeAttempts ==
    \A t \in Threads :
        frame[t].op = "execute" =>
            /\ frame[t].attempt <= 3
            /\ frame[t].dataReqs <= frame[t].attempt
            /\ pc[t] = "backoff" =>
                  /\ frame[t].attempt < 3
                  /\ \A r \in frame[t].lastResp : FailedResponse(r)
            /\ (pc[t] = "done" /\ result[t].status = "ok") =>
                  \E r \in frame[t].lastResp :
                      /\ ~FailedResponse(r)
                      /\ result[t].body = r.json
                      /\ result[t].headers = r.headers
            /\ (pc[t] = "done" /\ result[t].status = "raise") =>
                  /\ frame[t].attempt = 3
                  /\ The(result[t].exc).cause = frame[t].lastExc
                  /\ \A r \in frame[t].lastResp : FailedResponse(r)

C6_Witness ==
    /\ Finished("ui", "execute")
    /\ frame["ui"].attempt = 3
    /\ frame["ui"].dataReqs = 3
    /\ result["ui"].status = "raise"
    /\ \E r \in frame["ui"].lastResp : r.status = 429

\* C7: the error that execute surfaces for a 429 response is of kind
\* RateLimitError and the one for a 500 response of kind KiwoomAPIError.
C7_ErrorKindsSurfaced ==
    \A t \in Threads :
        (Finished(t, "execute") /\ result[t].status = "raise") =>
            \A r \in frame[t].lastResp :
                /\ r.status = 429 => The(result[t].exc).kind = "RateLimitError"
                /\ r.status = 500 => The(result[t].exc).kind = "KiwoomAPIError"

\* C8: a ConfigurationError or AuthenticationError arising in an attempt is
\* never retried: the call ends with it on that attempt, so one execute call
\* triggers at most one failing authentication request.
C8_ConfigAuthNotRetried ==
    \A t \in Threads :
        frame[t].op = "execute" =>
            \A e \in frame[t].lastExc :
                e.kind \in {"ConfigurationError", "AuthenticationError"} =>
                    /\ pc[t] = "done"
                    /\ result[t].exc = Some(e)
                    /\ frame[t].authReqs <= 1

\* C9: execute with an empty or missing endpoint fails with
\* ConfigurationError without any network call, in every session state.
C9_EmptyEndpointFails ==
    \A t \in Threads :
        (Finished(t, "execute") /\ frame[t].endpoint = {}) =>
            /\ result[t].status = "raise"
            /\ The(result[t].exc).kind = "ConfigurationError"
            /\ frame[t].authReqs = 0
            /\ frame[t].dataReqs = 0

\* C10: for a response with a non-2xx status other than 429 the attempt
\* raises KiwoomAPIError carrying the status code and the raw body text, the
\* notifier having been invoked with status and body before.
C10_ApiErrorCarriesStatus ==
    \A t \in Threads :
        (frame[t].op = "execute" /\ pc[t] \in {"backoff", "done"}) =>
            \A r \in frame[t].lastResp :
                (r.kind = "http" /\ r.status \notin 200..299 /\ r.status # 429) =>
                    /\ The(frame[t].lastExc).kind = "KiwoomAPIError"
                    /\ The(frame[t].lastExc).status_code = {r.status}
                    /\ The(frame[t].lastExc).payload = {r.text}
                    /\ frame[t].notes # <<>>
                    /\ frame[t].notes[Len(frame[t].notes)] = [status |-> r.status, body |-> r.text]

\* C4: a token obtained with credentials that update_credentials has since
\* replaced is never cached in the session nor sent as a Bearer token, also
\* when update_credentials on the UI thread interleaves with an authenticate
\* call in flight on the worker thread.
C4_NoStaleToken ==
    /\ \A tok \in access_token :
          ~(tok.epoch # epoch /\ tok.appkey # credentials.app_sky)
    /\ \A t \in Threads : ~frame[t].sentStale

\* C5: a paginated fetch (run_full_history with max_pages, the account
\* overview with its cap of 50) fetches at most max_pages pages, also when
\* every response carries cont-yn=Y with a next key; on reaching the cap it
\* logs a warning and returns the rows of all fetched pages, not an error.
RECURSIVE FlatRows(_, _)
FlatRows(op, pages) ==
    IF pages = <<>> THEN <<>>
    ELSE RowsOf(op, Head(pages)) \o FlatRows(op, Tail(pages))

ResultRows(op, res) ==
    LET body == The(res.body)
    IN  IF op = "run_full_history" THEN body.output
        ELSE IF op = "run_full_history_market" THEN body.stk_ddwkmm
        ELSE body.output1

SaysContinue(r) ==
    /\ r.headers # {}
    /\ The(r.headers).cont_yn \in {"Y", "y"}
    /\ The(r.headers).next_key # ""

C5_PaginationBounded ==
    \A t \in Threads :
        frame[t].op \in PagerOps =>
            /\ frame[t].page <= frame[t].max_pages
            /\ frame[t].op = "get_account_overview" => frame[t].max_pages = 50
            /\ Len(frame[t].pagesOk) <= frame[t].page
            /\ (pc[t] = "done" /\ result[t].status = "ok"
                  /\ \A r \in frame[t].lastResp : SaysContinue(r)) =>
                  /\ Len(frame[t].pagesOk) = frame[t].max_pages
                  /\ frame[t].warned
                  /\ ResultRows(frame[t].op, result[t]) = FlatRows(frame[t].op, frame[t].pagesOk)
            /\ (pc[t] = "done" /\ result[t].status = "raise") =>
                  \A r \in frame[t].lastResp : ~SaysContinue(r)

C5_Witness ==
    /\ Finished("ui", "get_account_overview")
    /\ Len(frame["ui"].pagesOk) = 50
    /\ frame["ui"].warned
    /\ result["ui"].status = "ok"
    /\ ResultRows("get_account_overview", result["ui"]) = <<"h1", "h2">>

\* C11: every execute call that ends in failure has invoked the notifier
\* exactly once, for the terminal failure; an attempt that fails and is
\* retried has notified nothing, and a call that succeeds has notified
\* nothing.
C11_NotifiedOncePerFailure ==
    \A t \in Threads :
        frame[t].op = "execute" =>
            /\ pc[t] = "backoff" => frame[t].notes = <<>>
            /\ (pc[t] = "done" /\ result[t].status = "raise") => Len(frame[t].notes) = 1
            /\ (pc[t] = "done" /\ result[t].status = "ok") => frame[t].notes = <<>>

\* C12: one place_order call sends the order POST at most 3 times, with no
\* retry loop beyond the executor's: a further POST follows only an attempt
\* that ended in a failure, a successful attempt ends the call, and every
\* submission carries the same body, which holds no idempotency key.
OrderFields == {"CANO", "ACNT_PRDT_CD", "PDNO", "ORD_DVSN", "ORD_QTY", "ORD_UNPR", "ORD_DVSN_CD"}

C12_OrderSentAtMostThrice ==
    \A t \in Threads :
        frame[t].op = "place_order" =>
            /\ frame[t].attempt <= 3
            /\ frame[t].dataReqs <= frame[t].attempt
            /\ Len(frame[t].sent) = frame[t].dataReqs
            /\ \A i \in 1..Len(frame[t].sent) :
                  /\ frame[t].sent[i] = frame[t].sent[1]
                  /\ DOMAIN frame[t].sent[i] = OrderFields
            /\ pc[t] = "backoff" =>
                  /\ frame[t].attempt < 3
                  /\ frame[t].lastExc # {}
                  /\ \A r \in frame[t].lastResp : FailedResponse(r)
            /\ (pc[t] = "done" /\ result[t].status = "ok") =>
                  \E r \in frame[t].lastResp : ~FailedResponse(r) /\ result[t].body = r.json

C12_Witness ==
    /\ Finished("ui", "place_order")
    /\ result["ui"].status = "ok"
    /\ Len(frame["ui"].sent) = 3
    /\ frame["ui"].sent[3].ORD_DVSN_CD = "SELL"
    /\ frame["ui"].sent[3].ORD_UNPR = <<"7", "0">>

\* C18: the account number is split over its digits only: with at least 10
\* digits the prefix is the first 8 digits and the product code digits 9-10;
\* with exactly 8 digits the product code is "01"; with 9 digits the 9th
\* digit is padded on the left with "0"; with fewer than 8 digits the call
\* fails with ConfigurationError.
DigitsOf(s) == SelectSeq(s, LAMBDA ch : ch \in {"0", "1", "2", "3", "4", "5", "6", "7", "8", "9"})

SentAccount(f) ==
    LET p == The(f.json_payload)
    IN  IF f.op = "place_order" THEN <<p.CANO, p.ACNT_PRDT_CD>> ELSE <<p.cano, p.acnt_prdt_cd>>

C18_SplitAccount ==
    \A t \in Threads :
        frame[t].op \in {"place_order", "get_account_overview"} =>
            LET d == DigitsOf(credentials.account_no)
                n == Len(d)
            IN  /\ n < 8 => /\ frame[t].json_payload = {}
                            /\ pc[t] = "done"
                            /\ result[t].status = "raise"
                            /\ The(result[t].exc).kind = "ConfigurationError"
                /\ (n >= 8 /\ frame[t].json_payload # {}) =>
                      /\ SentAccount(frame[t])[1] = <<d[1], d[2], d[3], d[4], d[5], d[6], d[7], d[8]>>
                      /\ n = 8 => SentAccount(frame[t])[2] = <<"0", "1">>
                      /\ n = 9 => SentAccount(frame[t])[2] = <<"0", d[9]>>
                      /\ n >= 10 => SentAccount(frame[t])[2] = <<d[9], d[10]>>
                /\ (n >= 8 /\ frame[t].op = "place_order") => frame[t].json_payload # {}

C18_Witness ==
    /\ frame["ui"].op = "place_order"
    /\ frame["ui"].dataReqs = 1
    /\ Len(DigitsOf(credentials.account_no)) = 9
    /\ frame["ui"].sent[1].CANO = <<"1", "2", "3", "4", "5", "6", "7", "8">>
    /\ frame["ui"].sent[1].ACNT_PRDT_CD = <<"0", "9">>

\* C19: place_order and get_account_overview with a configured account
\* number of fewer than 8 digits fail with ConfigurationError before any
\* HTTP request is issued (no authentication request, no order or account
\* request) and leave the session state unchanged.
C19_ShortAccountFailsEarly ==
    \A t \in Threads :
        (frame[t].op \in {"place_order", "get_account_overview"}
            /\ Len(DigitsOf(credentials.account_no)) < 8) =>
            /\ pc[t] = "done"
            /\ result[t].status = "raise"
            /\ The(result[t].exc).kind = "ConfigurationError"
            /\ frame[t].authReqs = 0
            /\ frame[t].dataReqs = 0
            /\ frame[t].sent = <<>>
            /\ access_token = The(frame[t].snap).token
            /\ token_expiry = The(frame[t].snap).expiry

C19_Witness ==
    /\ Finished("ui", "place_order")
    /\ "order" \in endpoints
    /\ Len(DigitsOf(credentials.account_no)) = 7
    /\ frame["ui"].hadToken
    /\ access_token # {}
    /\ result["ui"].status = "raise"
    /\ The(result["ui"].exc).kind = "ConfigurationError"

\* C13: revoke_token on an authenticated client ends with token and expiry
\* absent whether the logout POST succeeds, returns an error status or fails
\* with a network error; nothing is raised to the caller.
C13_RevokeAlwaysClears ==
    \A t \in Threads :
        (Finished(t, "revoke_token") /\ frame[t].hadToken) =>
            /\ access_token = {}
            /\ token_expiry = {}
            /\ result[t].status = "ok"
            /\ frame[t].logoutReqs = (IF "logout" \in endpoints THEN 1 ELSE 0)

C13_Witness ==
    /\ Finished("ui", "revoke_token")
    /\ frame["ui"].hadToken
    /\ frame["ui"].lastResp = {NetErr}
    /\ frame["ui"].logoutReqs = 1
    /\ access_token = {}

\* C14: close() and revoke_token() are idempotent and safe on a client that
\* never authenticated: a call that finds no token (revoke_token) or the
\* closed flag set (close) changes no state and sends no request, a call
\* before any authentication raises nothing and sends no request, and the
\* HTTP session is closed once however often close() is called.
C14_CloseRevokeIdempotent ==
    /\ session_closes <= 1
    /\ closed <=> session_closes = 1
    /\ \A t \in Threads :
          /\ (Finished(t, "revoke_token") /\ ~frame[t].hadToken) =>
                /\ frame[t].logoutReqs = 0
                /\ result[t].status = "ok"
                /\ access_token = {}
                /\ token_expiry = The(frame[t].snap).expiry
          /\ (Finished(t, "close") /\ frame[t].args = {TRUE}) =>
                /\ frame[t].logoutReqs = 0
                /\ result[t].status = "ok"
                /\ access_token = The(frame[t].snap).token
                /\ token_expiry = The(frame[t].snap).expiry
                /\ closed
          /\ (Finished(t, "close") /\ ~frame[t].hadToken) =>
                /\ frame[t].logoutReqs = 0
                /\ result[t].status = "ok"
                /\ closed

C14_Witness ==
    /\ Finished("ui", "close")
    /\ frame["ui"].args = {TRUE}
    /\ "logout" \in endpoints
    /\ session_closes = 1
    /\ access_token = {}

\* C15: in every reachable state in which close() has completed (closed flag
\* set) the client holds no cached access token, whatever operations are
\* issued, also after the close.
C15_NoTokenAfterClose ==
    closed => access_token = {}

\* C16: the session is empty at construction, set by a successful
\* authentication, and cleared by credential update, by revocation and by
\* forced re-authentication: once authenticate(force=true) has been invoked
\* on an authenticated client the previously cached token is no longer held,
\* also when the new authentication attempt fails.
C16_SessionLifecycle ==
    /\ (\A t \in Threads : pc[t] = "idle") => (access_token = {} /\ token_expiry = {})
    /\ \A t \in Threads :
        /\ (Finished(t, "authenticate") /\ result[t].status = "ok") => access_token = result[t].token
        /\ Finished(t, "update_credentials") => access_token = {}
        /\ Finished(t, "revoke_token") => access_token = {}
        /\ (frame[t].op = "authenticate" /\ frame[t].force /\ frame[t].hadToken
              /\ (pc[t] = "auth_wait" \/ (pc[t] = "done" /\ result[t].status = "raise"))) =>
              access_token = {}

\* C17: access_token and token_expiry change only in a step of the Token
\* Manager (authenticate storing a token, update_credentials, revoke_token,
\* also through close); the step in which a request attempt ends in an API
\* error leaves both fields and the pagination cursor of the call unchanged,
\* and so does, for the two fields, every step that takes in a page.
C17_SessionOwnedByTokenManager ==
    [][/\ (access_token' # access_token \/ token_expiry' # token_expiry) =>
             \E t \in Threads :
                 \/ pc[t] = "auth_wait" /\ pc'[t] # "auth_wait"
                 \/ pc[t] = "revoke_wait" /\ pc'[t] = "done"
                 \/ /\ pc[t] \in {"idle", "done"}
                    /\ pc'[t] = "done"
                    /\ frame'[t].op \in {"update_credentials", "revoke_token", "close"}
       /\ \A t \in Threads :
             (pc[t] = "req_wait" /\ frame'[t].lastExc # {}) =>
                 /\ access_token' = access_token
                 /\ token_expiry' = token_expiry
                 /\ frame'[t].cursor = frame[t].cursor
       /\ \A t \in Threads :
             (pc[t] = "req_wait" /\ frame[t].op \in PagerOps) =>
                 /\ access_token' = access_token
                 /\ token_expiry' = token_expiry
      ]_vars

C17_Witness ==
    /\ pc["ui"] = "backoff"
    /\ frame["ui"].op = "run_full_history"
    /\ frame["ui"].page = 2
    /\ frame["ui"].cursor.next_key = "k"
    /\ \E r \in frame["ui"].lastResp : r.status = 500
    /\ access_token # {}

\* C20: base URL resolution returns the first non-empty of (1) the hosts
\* table's entry for the current environment, then its paper entry, then its
\* live entry, (2) the flat base_url string, (3) the hard-coded default of
\* the environment; a hosts table wins over a flat base_url string.  Stated
\* for configurations whose base_url is absent or a string and whose hosts
\* is absent or a table.
FirstNonEmpty(urls) == Head(SelectSeq(urls, LAMBDA u : u # ""))

C20_BaseUrlResolution ==
    (/\ Finished("ui", "KiwoomRESTClient")
     /\ kiwoom_cfg.base_url.t \in {"none", "str"}
     /\ kiwoom_cfg.hosts.t \in {"none", "dict"}) =>
        LET hosts == kiwoom_cfg.hosts.d
            entry(k) == IF k \in DOMAIN hosts THEN hosts[k] ELSE ""
            env == IF is_live THEN "live" ELSE "paper"
        IN  base_url = {FirstNonEmpty(<<entry(env), entry("paper"), entry("live"),
                                        kiwoom_cfg.base_url.s,
                                        IF is_live THEN "https://api.kiwoom.com"
                                        ELSE "https://mockapi.kiwoom.com">>)}

\* C21: construction never fails for want of configuration: for every
\* configuration (no base_url, no hosts, empty tables, empty strings) the
\* resolved base URL is non-empty, and when nothing non-empty is configured
\* it is https://api.kiwoom.com in live mode and https://mockapi.kiwoom.com
\* in paper mode; the constructor does not raise ConfigurationError.
NothingConfigured(value) ==
    /\ value.s = ""
    /\ \A k \in DOMAIN value.d : value.d[k] = ""

C21_ConstructionNeverFails ==
    Finished("ui", "KiwoomRESTClient") =>
        /\ result["ui"].status = "ok"
        /\ base_url # {}
        /\ base_url # {""}
        /\ (NothingConfigured(kiwoom_cfg.base_url) /\ NothingConfigured(kiwoom_cfg.hosts)) =>
              base_url = {IF is_live THEN "https://api.kiwoom.com"
                          ELSE "https://mockapi.kiwoom.com"}

C21_Witness ==
    /\ Finished("ui", "KiwoomRESTClient")
    /\ is_live
    /\ kiwoom_cfg.base_url = CfgStr("")
    /\ kiwoom_cfg.hosts = CfgTable([live |-> "", paper |-> ""])
    /\ base_url = {"https://api.kiwoom.com"}

\* C22: a paginated fetch requests a further page only if the last response
\* carried continuation flag Y (in either case) and a non-empty next key; a
\* response whose flag is not Y, or whose next key is empty or missing, is
\* the last page requested.
HeadersSayContinue(h) == h.cont_yn \in {"Y", "y"} /\ h.next_key # ""

C22_StopRule ==
    \A t \in Threads :
        (frame[t].op \in PagerOps /\ frame[t].page >= 1) =>
            /\ Len(frame[t].pagesOk) \in {frame[t].page - 1, frame[t].page}
            /\ Len(frame[t].pagesOk) = frame[t].page <=> (pc[t] = "done" /\ result[t].status = "ok")
            /\ frame[t].page >= 2 =>
                  (Len(frame[t].pagesOk) = frame[t].page - 1 =>
                      \E h \in frame[t].lastHeaders : HeadersSayContinue(h))
            /\ \A h \in frame[t].lastHeaders :
                  ~HeadersSayContinue(h) =>
                      /\ pc[t] = "done"
                      /\ result[t].status = "ok"
                      /\ Len(frame[t].pagesOk) = frame[t].page

C22_Witness ==
    /\ Finished("ui", "run_full_history")
    /\ frame["ui"].max_pages = 2
    /\ frame["ui"].page = 1
    /\ frame["ui"].lastHeaders = {[cont_yn |-> "Y", next_key |-> ""]}
    /\ ~frame["ui"].warned

\* C23: a paginated fetch sends its first page request with cursor (flag N,
\* empty next key) and every later page request with cont-yn = Y and exactly
\* the next-key of the headers of the immediately preceding response.
C23_CursorFromPrecedingResponse ==
    \A t \in Threads :
        (frame[t].op \in PagerOps /\ frame[t].page >= 1) =>
            /\ frame[t].page = 1 =>
                  /\ Get(frame[t].req_headers, "cont-yn", "N") = "N"
                  /\ Get(frame[t].req_headers, "next-key", "") = ""
            /\ (frame[t].page >= 2 /\ Len(frame[t].pagesOk) = frame[t].page - 1) =>
                  /\ frame[t].lastHeaders # {}
                  /\ Get(frame[t].req_headers, "cont-yn", "N") = "Y"
                  /\ Get(frame[t].req_headers, "next-key", "") = The(frame[t].lastHeaders).next_key

C23_Witness ==
    /\ pc["ui"] = "req_wait"
    /\ frame["ui"].op = "run_full_history"
    /\ frame["ui"].page = 2
    /\ frame["ui"].attempt = 2
    /\ frame["ui"].lastHeaders = {[cont_yn |-> "y", next_key |-> "k2"]}
    /\ frame["ui"].req_headers["next-key"] = "k2"

\* C24: get_account_overview requests at most 50 pages and returns output1 =
\* the holdings lists of the pages in page order (per page the first
\* non-empty of output1, output, stk_acnt_evlt_prst), output2 = the pages'
\* summaries in page order (a list is extended, a non-empty object is
\* appended) and raw_pages = every fetched body in order, one per page
\* requested.
ListOf(j) == IF j.t = "list" THEN j.v ELSE <<>>

HoldingsOfPage(b) ==
    IF "output1" \in DOMAIN b /\ b["output1"].v # <<>> THEN ListOf(b["output1"])
    ELSE IF "output" \in DOMAIN b /\ b["output"].v # <<>> THEN ListOf(b["output"])
    ELSE IF "stk_acnt_evlt_prst" \in DOMAIN b THEN ListOf(b["stk_acnt_evlt_prst"])
    ELSE <<>>

SummaryOfPage(b) ==
    LET j == IF "output2" \in DOMAIN b /\ b["output2"].v # <<>> THEN b["output2"]
             ELSE IF "summary" \in DOMAIN b THEN b["summary"]
             ELSE [t |-> "list", v |-> <<>>]
    IN  IF j.t = "list" THEN j.v ELSE IF j.v # <<>> THEN <<j>> ELSE <<>>

RECURSIVE Merged(_, _)
Merged(Part(_), pages) ==
    IF pages = <<>> THEN <<>> ELSE Part(Head(pages)) \o Merged(Part, Tail(pages))

C24_AccountOverviewMerged ==
    \A t \in Threads :
        frame[t].op = "get_account_overview" =>
            /\ frame[t].page <= 50
            /\ (pc[t] = "done" /\ result[t].status = "ok") =>
                  LET out == The(result[t].body)
                  IN  /\ out.raw_pages = frame[t].pagesOk
                      /\ Len(out.raw_pages) = frame[t].page
                      /\ out.output1 = Merged(HoldingsOfPage, out.raw_pages)
                      /\ out.output2 = Merged(SummaryOfPage, out.raw_pages)

C24_Witness ==
    /\ Finished("ui", "get_account_overview")
    /\ result["ui"].status = "ok"
    /\ Len(frame["ui"].pagesOk) = 2
    /\ The(result["ui"].body).output1 = <<"h1", "h2">>
    /\ The(result["ui"].body).output2 = <<"s1", [t |-> "dict", v |-> <<"s2">>]>>

\* C25 (as stated): timeframe resolution, case-insensitive, maps each token
\* of the table 1m,3m,5m,10m,15m,30m,60m,1h,2h,4h,6h to its minute code with
\* transaction id FHKST03010200, tick to no minute code with FHKST03010200,
\* and every other token to no minute code with HHDFS00000300; get_candles
\* sends the minute-code parameter only when one is resolved.
MinuteCodeOf(tf) ==
    CASE tf \in {"1m", "1M"} -> {"1"}
      [] tf = "3m" -> {"3"}
      [] tf = "5m" -> {"5"}
      [] tf = "10m" -> {"10"}
      [] tf = "15m" -> {"15"}
      [] tf = "30m" -> {"30"}
      [] tf \in {"60m", "1h"} -> {"60"}
      [] tf = "2h" -> {"120"}
      [] tf \in {"4h", "4H"} -> {"240"}
      [] tf = "6h" -> {"360"}
      [] OTHER -> {}

CandleRequestAgrees(f, tick_tokens) ==
    LET tf == The(f.args)
        code == MinuteCodeOf(tf)
        tr_id == IF code # {} \/ tf \in tick_tokens THEN "FHKST03010200" ELSE "HHDFS00000300"
        p == The(f.params)
    IN  /\ f.req_headers["tr_id"] = tr_id
        /\ code # {} => ("fid_input_hour_1" \in DOMAIN p /\ p["fid_input_hour_1"] = The(code))
        /\ code = {} => "fid_input_hour_1" \notin DOMAIN p

C25_TimeframeTable ==
    \A t \in Threads :
        frame[t].op = "get_candles" => CandleRequestAgrees(frame[t], {"tick", "TICK"})

\* C25 (amended): as above, with the tokens tick and t (in either case)
\* both resolved to no minute code with FHKST03010200.
C25_TimeframeTableWithAlias ==
    \A t \in Threads :
        frame[t].op = "get_candles" => CandleRequestAgrees(frame[t], {"tick", "TICK", "t", "T"})

C25_Witness ==
    /\ pc["ui"] = "req_wait"
    /\ frame["ui"].op = "get_candles"
    /\ frame["ui"].args = {"4H"}
    /\ The(frame["ui"].params)["fid_input_hour_1"] = "240"
    /\ frame["ui"].req_headers["tr_id"] = "FHKST03010200"

----------------------------------------------------------------------------
(* Specification: one caller authenticates again and again against a token
   endpoint that answers with every shape of body the client distinguishes *)

ExpiresInValues ==
    {None, Some(JNum(0)), Some(JNum(60)), Some(JNum(61)), Some(JStr(<<"9", "0">>)), Some(JStr(<<"x">>))}

\* expires_dt: absent, empty, 600 s after the origin of the clock, 10 s after
\* it, and a text that is no timestamp
ExpiresDtValues ==
    {None, Some(<<>>), Some(<<"1", "0", "0", "0">>), Some(<<"0", "0", "1", "0">>), Some(<<"s", "o", "o", "n">>)}

TokenBodies ==
    {[token_in |-> {k}, expires_in |-> ein, expires_dt |-> edt,
      return_code |-> None, return_msg |-> None] :
        k \in {"access_token", "token"}, ein \in ExpiresInValues, edt \in ExpiresDtValues}

TokenlessBodies ==
    {[token_in |-> ks, expires_in |-> None, expires_dt |-> None,
      return_code |-> rc, return_msg |-> rm] :
        ks \in {{}, {"jwt"}}, rc \in {None, Some(0), Some(7)},
        rm \in {None, Some(""), Some("bad key")}}

\* a body that carries a token together with a vendor error
TokenWithErrorBody ==
    [token_in |-> {"access_token"}, expires_in |-> Some(JNum(61)), expires_dt |-> None,
     return_code |-> Some(7), return_msg |-> Some("bad key")]

RichAuthResponses ==
    {[kind |-> "neterr", status |-> 0, body |-> AuthBody(FALSE, None, None)],
     [kind |-> "http", status |-> 200, body |-> TokenWithErrorBody],
     [kind |-> "http", status |-> 401, body |-> AuthBody(TRUE, Some(JNum(61)), None)],
     [kind |-> "http", status |-> 500, body |-> AuthBody(FALSE, None, None)]}
    \cup {[kind |-> "http", status |-> 200, body |-> b] : b \in TokenBodies \cup TokenlessBodies}

NextAuth ==
    \/ \E force \in BOOLEAN : authenticate("ui", force)
    \/ \E r \in RichAuthResponses : authenticate_response("ui", r)
    \/ Tick

SpecAuth == InitLife /\ [][NextAuth]_vars

\* The lifetime the rule of the claim gives for a body read at time t
NumericExpiresIn(body) ==
    /\ body.expires_in # None
    /\ \/ The(body.expires_in).t = "num"
       \/ AllDigits(The(body.expires_in).s)

ParsedExpiresDt(body) ==
    IF body.expires_dt = None THEN None ELSE strptime(The(body.expires_dt))

Lifetime(body, t) ==
    CASE NumericExpiresIn(body) ->
            IF The(body.expires_in).t = "num" THEN The(body.expires_in).n
            ELSE ParseInt(The(body.expires_in).s)
      [] ~NumericExpiresIn(body) /\ ParsedExpiresDt(body) # None ->
            IF The(ParsedExpiresDt(body)) > t THEN The(ParsedExpiresDt(body)) - t ELSE 0
      [] OTHER -> DefaultExpiry

AuthSucceeds(t) ==
    /\ pc[t] = "auth_wait"
    /\ frame[t].op = "authenticate"
    /\ pc'[t] = "done"
    /\ result'[t].status = "ok"

\* the caller's previous call was an authenticate that stored a token living
\* 60 s or less, and the caller now calls authenticate(force=False)
ShortLivedThenAuthenticate(t) ==
    /\ pc[t] = "done"
    /\ frame[t].op = "authenticate"
    /\ result[t].status = "ok"
    /\ frame[t].lastResp # None
    /\ token_expiry # None
    /\ The(token_expiry) <= now + TokenMargin
    /\ frame'[t].op = "authenticate"
    /\ ~frame'[t].force
    /\ pc'[t] # "done" \/ result'[t] # result[t] \/ frame'[t] # frame[t]

\* C26: the lifetime resolved from an authentication response is expires_in
\* when it is a number or a string of digits; otherwise, when expires_dt
\* parses as a timestamp, the time remaining until it, floored at 0;
\* otherwise 3600.  A successful authenticate stores now + that lifetime as
\* the expiry (an expires_dt 600 s ahead stores now + 600), and after a
\* lifetime of 60 s or less the next authenticate(force=False) sends an
\* authentication request instead of answering from the cache.
C26_ExpiryResolution ==
    [][\A t \in Threads :
          /\ AuthSucceeds(t) =>
                LET body == The(frame'[t].lastResp).body
                IN  /\ token_expiry' = Some(now + Lifetime(body, now))
                    /\ access_token' # None
                    /\ (~NumericExpiresIn(body) /\ ParsedExpiresDt(body) = Some(now + 600)) =>
                          token_expiry' = Some(now + 600)
          /\ ShortLivedThenAuthenticate(t) =>
                /\ pc'[t] = "auth_wait"
                /\ frame'[t].authReqs = 1]_vars

\* a second authenticate(force=False) is waiting for its response right
\* after a response at time 30 stored a token with a lifetime of 0
C26_Witness ==
    /\ pc["ui"] = "auth_wait"
    /\ frame["ui"].op = "authenticate"
    /\ ~frame["ui"].force
    /\ frame["ui"].hadToken
    /\ frame["ui"].authReqs = 1
    /\ The(frame["ui"].snap).now = 30
    /\ The(frame["ui"].snap).expiry = Some(30)
    /\ now = 30

\* the cases of failure the claim lists, for a response r
NetworkOrStatusError(r) == r.kind = "neterr" \/ r.status >= 400

NoTokenField(r) == r.body.token_in \cap {"access_token", "token"} = {}

ErrorCodeWithMessage(r) ==
    /\ r.body.return_code # None
    /\ The(r.body.return_code) # 0
    /\ r.body.return_msg # None
    /\ r.body.return_msg # Some("")

\* C27: authenticate raises AuthenticationError and leaves the cached token
\* and expiry as they were when the HTTP call raises a network error or
\* returns an error status, when the body has no token under access_token or
\* token, and when the body carries a non-zero return code with a message,
\* whose text is then the text of the error; a call that stores a new token
\* has received a body with a token field.
C27_AuthFailures ==
    \A t \in Threads :
        (Finished(t, "authenticate") /\ frame[t].lastResp # None) =>
            LET r == The(frame[t].lastResp)
                failed ==
                    /\ result[t].status = "raise"
                    /\ The(result[t].exc).kind = "AuthenticationError"
                    /\ access_token = The(frame[t].snap).token
                    /\ token_expiry = The(frame[t].snap).expiry
            IN  /\ (NetworkOrStatusError(r) \/ NoTokenField(r)) => failed
                /\ (~NetworkOrStatusError(r) /\ ErrorCodeWithMessage(r)) =>
                      /\ failed
                      /\ The(result[t].exc).message = r.body.return_msg
                /\ result[t].status = "ok" => (~NetworkOrStatusError(r) /\ ~NoTokenField(r))

----------------------------------------------------------------------------
(* Specification: a client is constructed from a configuration with a
   default_headers table and sends requests with headers of the caller *)


\* the tables: none; a padded api-id key; content_type; CONTENT-TYPE followed
\* by a padded Content_Type; an empty key, Authorization and a padded api-id
HeaderTables ==
    {NoHeaderTable,
     << <<<<" ", "a", "p", "i", "-", "i", "d", " ">>, "d1">> >>,
     << <<<<"c", "o", "n", "t", "e", "n", "t", "_", "t", "y", "p", "e">>, "text/a">> >>,
     << <<<<"C", "O", "N", "T", "E", "N", "T", "-", "T", "Y", "P", "E">>, "text/a">>,
        <<<<" ", "C", "o", "n", "t", "e", "n", "t", "_", "T", "y", "p", "e">>, "text/b">> >>,
     << <<<<>>, "zz">>,
        <<<<"A", "u", "t", "h", "o", "r", "i", "z", "a", "t", "i", "o", "n">>, "Basic d">>,
        <<<<" ", "a", "p", "i", "-", "i", "d", " ">>, "d1">> >>}

CallerHeaders ==
    {EmptyDict,
     ("api-id" :> "c1"),
     ("Content-Type" :> "text/c") @@ ("tr_id" :> "T1"),
     ("Authorization" :> "Bearer mine")}

InitHeaders ==
    /\ credentials = [app_sky |-> <<"a">>, sec_key |-> <<"s">>, account_no |-> EnvAccount]
    /\ access_token = None
    /\ risk = NoLimits
    /\ window = NoWindow
    /\ events = <<>>
    /\ token_expiry = None
    /\ endpoints = {"authenticate", "candles"}
    /\ is_live = FALSE
    /\ kiwoom_cfg \in [base_url : {CfgAbsent},
                        hosts : {CfgTable([live |-> "https://api.x", paper |-> "https://mock.x"])},
                        default_headers : HeaderTables]
    /\ base_url = None
    /\ default_headers = EmptyDict
    /\ closed = FALSE
    /\ session_closes = 0
    /\ now = 0
    /\ epoch = 0
    /\ justUpdated = FALSE
    /\ pc = [t \in Threads |-> "idle"]
    /\ frame = [t \in Threads |-> NoFrame]
    /\ result = [t \in Threads |-> NoResult]

NextHeaders ==
    \/ KiwoomRESTClient("ui")
    \/ /\ base_url # None
       /\ \E h \in CallerHeaders, ia \in BOOLEAN : request("ui", Some("candles"), h, ia)
    \/ retry_attempt("ui")
    \/ \E r \in RaceAuthResponses : build_headers_response("ui", r)
    \/ \E r \in RaceDataResponses : request_response("ui", r)
    \/ Tick

SpecHeaders == InitHeaders /\ [][NextHeaders]_vars

\* the entries of the configured table that are kept, and the name each one
\* is stored under
KeptEntries == {i \in 1..Len(kiwoom_cfg.default_headers) : kiwoom_cfg.default_headers[i][1] # <<>>}

IsContentTypeVariant(key) == LowerChars(Strip(key)) \in ContentTypeSpellings

StoredName(i) ==
    LET key == kiwoom_cfg.default_headers[i][1]
    IN  IF IsContentTypeVariant(key) THEN "Content-Type" ELSE Join(Strip(key))

DefaultsNormalized ==
    /\ DOMAIN default_headers = {"Content-Type"} \cup {StoredName(i) : i \in KeptEntries}
    /\ \A i \in KeptEntries :
          (\A j \in KeptEntries : StoredName(j) = StoredName(i) => j <= i) =>
             default_headers[StoredName(i)] = kiwoom_cfg.default_headers[i][2]
    /\ (\A i \in KeptEntries : StoredName(i) # "Content-Type") =>
          default_headers["Content-Type"] = "application/json;charset=UTF-8"

BuiltIn(tok) ==
    ("Authorization" :> ("Bearer " \o TokenText(tok)))
    @@ ("Content-Type" :> "application/json;charset=UTF-8")

\* C28: the headers sent with an authenticated request are the built-in
\* Authorization: Bearer <token> and Content-Type, overlaid by the normalized
\* default headers, overlaid by the caller's headers, so that on a key of
\* several layers the caller's value wins and the defaults win over the
\* built-ins; the normalized defaults have trimmed keys, the one key
\* Content-Type for every spelling of content-type/content_type, and the
\* default Content-Type when none is configured.
C28_HeaderLayers ==
    /\ base_url # None => DefaultsNormalized
    /\ \A t \in Threads :
          (frame[t].op = "execute" /\ frame[t].include_auth /\ frame[t].sent_headers # None) =>
             LET h == The(frame[t].sent_headers)
                 extra == frame[t].req_headers
                 built == BuiltIn(The(frame[t].bearer))
             IN  /\ DOMAIN h = DOMAIN built \cup DOMAIN default_headers \cup DOMAIN extra
                 /\ \A k \in DOMAIN h :
                       h[k] = IF k \in DOMAIN extra THEN extra[k]
                              ELSE IF k \in DOMAIN default_headers THEN default_headers[k]
                              ELSE built[k]

\* a request went out whose Authorization comes from the defaults and whose
\* api-id comes from the caller, the defaults having a padded api-id key
C28_Witness ==
    /\ pc["ui"] = "req_wait"
    /\ frame["ui"].include_auth
    /\ default_headers = ("Authorization" :> "Basic d") @@ ("api-id" :> "d1")
                            @@ ("Content-Type" :> "application/json;charset=UTF-8")
    /\ frame["ui"].req_headers = ("api-id" :> "c1")
    /\ frame["ui"].sent_headers = {("Authorization" :> "Basic d") @@ ("api-id" :> "c1")
                                     @@ ("Content-Type" :> "application/json;charset=UTF-8")}

----------------------------------------------------------------------------
(* Specification: a worker's authenticated request is retried while the
   form's thread replaces the credentials or revokes the token and the
   clock runs *)

NextRetry ==
    \/ update_credentials("ui", <<"b">>, <<"s">>, EnvAccount)
    \/ revoke_token("ui")
    \/ \E r \in LogoutResponses : revoke_response("ui", r)
    \/ request_with_headers("worker", Some("candles"), TRUE)
    \/ retry_attempt("worker")
    \/ \E r \in LifeAuthResponses : build_headers_response("worker", r)
    \/ \E r \in LifeDataResponses : request_response("worker", r)
    \/ Tick

SpecRetry == InitLife /\ [][NextRetry]_vars

CachedTokenValid ==
    /\ access_token # None
    /\ token_expiry # None
    /\ The(token_expiry) > now + 60

CredentialsComplete == credentials.app_sky # <<>> /\ credentials.sec_key # <<>>

\* the steps of a retry: the attempt after a backoff starts, and the
\* authentication it has asked for answers
RetryStarts(t) ==
    /\ pc[t] = "backoff"
    /\ frame[t].include_auth
    /\ pc'[t] # "backoff" \/ frame'[t] # frame[t]

RetryAuthAnswers(t) ==
    /\ pc[t] = "auth_wait"
    /\ frame[t].op \in ExecOps
    /\ frame[t].attempt > 1
    /\ pc'[t] # "auth_wait"

\* C29: every retry attempt of an authenticated request builds its headers
\* anew through authenticate(): an attempt that starts with a valid cached
\* token sends that token; an attempt that starts when the cached token is
\* absent or no longer valid (expired, revoked, cleared by
\* update_credentials) sends nothing before it has issued an authentication
\* request of its own, and the token it then sends is the one that this
\* request obtained and that is cached from then on, whatever token the
\* earlier attempts sent.
C29_RetryRebuildsHeaders ==
    [][\A t \in Threads :
          /\ (RetryStarts(t) /\ CachedTokenValid) =>
                /\ pc'[t] = "req_wait"
                /\ frame'[t].bearer = access_token
                /\ frame'[t].authReqs = frame[t].authReqs
                /\ frame'[t].dataReqs = frame[t].dataReqs + 1
          /\ (RetryStarts(t) /\ ~CachedTokenValid /\ CredentialsComplete) =>
                /\ pc'[t] = "auth_wait"
                /\ frame'[t].authReqs = frame[t].authReqs + 1
                /\ frame'[t].dataReqs = frame[t].dataReqs
                /\ The(frame'[t].authPayload).appkey = credentials.app_sky
          /\ RetryAuthAnswers(t) =>
                IF pc'[t] = "req_wait"
                THEN /\ frame'[t].bearer = Some(IssuedToken(The(frame[t].authPayload)))
                     /\ access_token' = frame'[t].bearer
                     /\ frame'[t].dataReqs = frame[t].dataReqs + 1
                ELSE /\ frame'[t].dataReqs = frame[t].dataReqs
                     /\ access_token' = access_token]_vars

\* the second attempt of a request has authenticated again after
\* update_credentials and has sent the token of the new credentials
C29_Witness ==
    /\ pc["worker"] = "req_wait"
    /\ frame["worker"].attempt = 2
    /\ frame["worker"].authReqs = 2
    /\ frame["worker"].dataReqs = 2
    /\ epoch = 1
    /\ frame["worker"].bearer = {[appkey |-> <<"b">>, epoch |-> 1]}
    /\ access_token = frame["worker"].bearer

----------------------------------------------------------------------------
(* Specification: two callers authenticate through one client *)

NextTwo ==
    \/ \E t \in Threads : authenticate(t, FALSE)
    \/ \E t \in Threads, r \in AuthResponses : authenticate_response(t, r)
    \/ Tick

SpecTwo == InitLife /\ [][NextTwo]_vars

\* a caller enters authenticate(force=False)
AuthenticateStarts(t) ==
    /\ pc[t] \in {"idle", "done"}
    /\ frame'[t].op = "authenticate"
    /\ The(frame'[t].snap).now = now
    /\ pc'[t] = "auth_wait" \/ frame'[t] # frame[t] \/ result'[t] # result[t]

\* C30: authentication is not single-flight.  A caller that enters
\* authenticate(force=False) while the token is absent or within 60 s of its
\* expiry issues an authentication request whatever the other caller is
\* doing, also while the other caller's authentication request is in flight,
\* so two requests can be in flight at once; and no call of authenticate
\* issues more than one authentication request.
C30_NotSingleFlight ==
    [][\A t \in Threads :
          /\ (AuthenticateStarts(t) /\ ~CachedTokenValid /\ CredentialsComplete) =>
                /\ pc'[t] = "auth_wait"
                /\ frame'[t].authReqs = 1
          /\ (AuthenticateStarts(t) /\ CachedTokenValid) =>
                /\ pc'[t] = "done"
                /\ frame'[t].authReqs = 0
          /\ frame'[t].op = "authenticate" => frame'[t].authReqs <= 1
          /\ (pc[t] = "auth_wait" /\ pc'[t] = "auth_wait") =>
                frame'[t].authReqs = frame[t].authReqs]_vars

\* both callers found a cached token within 60 s of its expiry and each has
\* an authentication request in flight
C30_Witness ==
    /\ \A t \in Threads :
          /\ pc[t] = "auth_wait"
          /\ frame[t].op = "authenticate"
          /\ frame[t].authReqs = 1
          /\ frame[t].hadToken
          /\ The(The(frame[t].snap).expiry) <= The(frame[t].snap).now + 60
    /\ access_token # None

\* C31: revoke_token sends a logout POST exactly when a token is cached and
\* a logout endpoint is configured, with the cached token as Bearer; without
\* a cached token or without a logout endpoint it sends no HTTP request.
C31_LogoutPostWhenAuthenticated ==
    \A t \in Threads :
        (frame[t].op = "revoke_token" /\ pc[t] \in {"revoke_wait", "done"}) =>
            LET before == The(frame[t].snap)
                posts == before.token # None /\ "logout" \in endpoints
            IN  /\ frame[t].logoutReqs = (IF posts THEN 1 ELSE 0)
                /\ frame[t].authReqs = 0
                /\ frame[t].dataReqs = 0
                /\ posts => frame[t].bearer = before.token
                /\ ~posts => (pc[t] = "done" /\ frame[t].bearer = None)
                /\ pc[t] = "revoke_wait" => (posts /\ access_token = frame[t].bearer)

\* the logout POST of an authenticated client is in flight with the cached
\* token as Bearer
C31_Witness ==
    /\ pc["ui"] = "revoke_wait"
    /\ frame["ui"].op = "revoke_token"
    /\ frame["ui"].logoutReqs = 1
    /\ frame["ui"].bearer = access_token
    /\ access_token = {[appkey |-> <<"a">>, epoch |-> 0]}

----------------------------------------------------------------------------
(* Specification: a sync run over symbols and timeframes, against an
   upstream that has at most MaxDataPages + 1 pages for a pair *)

SyncResponses(t) ==
    {NetErr, HttpErr(429, "slow"),
     HttpJson([output |-> JList(<<"c">>)], [cont_yn |-> "N", next_key |-> ""])}
    \cup (IF frame[t].page \in 1..MaxDataPages
          THEN {HttpJson([output |-> JList(<<"c">>)], [cont_yn |-> "Y", next_key |-> "k"])}
          ELSE {})

InitSync ==
    /\ credentials = [app_sky |-> <<"a">>, sec_key |-> <<"s">>, account_no |-> EnvAccount]
    /\ access_token = None
    /\ risk = NoLimits
    /\ window = NoWindow
    /\ events = <<>>
    /\ token_expiry = None
    /\ endpoints \in {AllEndpoints, AllEndpoints \ {"market_condition"}}
    /\ Constructed
    /\ now = 0
    /\ epoch = 0
    /\ justUpdated = FALSE
    /\ pc = [t \in Threads |-> "idle"]
    /\ frame = [t \in Threads |-> NoFrame]
    /\ result = [t \in Threads |-> NoResult]

NextSync ==
    \/ \E symbols \in {<<>>, <<"A">>, <<"A", "B">>},
          timeframes \in {<<"1m">>, <<"day", "1m">>},
          full_history \in BOOLEAN :
            run("worker", symbols, timeframes, 200, full_history)
    \/ retry_attempt("worker")
    \/ \E r \in LifeAuthResponses : build_headers_response("worker", r)
    \/ \E r \in SyncResponses("worker") : request_response("worker", r)

SpecSync == InitSync /\ [][NextSync]_vars

\* a run() has ended
RunEnded(t) == pc[t] = "done" /\ frame[t].run # None

\* the last attempt of the last collector call got an answer from the
\* upstream (or a network error) that the client classified as a failure
ApiAccessFailed(t) == frame[t].lastResp # None /\ frame[t].lastExc # None

\* C32: when API access fails while candles are fetched (the request still
\* failing after the client's retries), _fetch_candles returns synthetic
\* candles instead of propagating the error, so run() records an entry for
\* that symbol and timeframe: a run that has ended after such a failure
\* has returned a summary whose entry for the pair in hand is marked
\* synthetic.
C32_SyntheticOnApiFailure ==
    \A t \in Threads :
        (RunEnded(t) /\ ApiAccessFailed(t)) =>
            LET r == The(frame[t].run)
            IN  /\ result[t].status = "ok"
                /\ Len(r.synced) = r.i
                /\ r.synced[r.i].synthetic

\* the k-th pair of a configuration in symbol-major order
PairAt(cfg, k) ==
    LET n == Len(cfg[2])
    IN  <<cfg[1][((k - 1) \div n) + 1], cfg[2][((k - 1) % n) + 1]>>

PairCount(cfg) == Len(cfg[1]) * Len(cfg[2])

\* C38: run() takes the symbol/timeframe pairs in symbol-major order, one at
\* a time: the k-th fetch is for the k-th pair and starts when the entries of
\* the k-1 pairs before it are in the summary; a run that returns has
\* returned exactly one entry per pair in that order; a run that raises
\* returns no summary and has fetched no pair after the failing one.
C38_SymbolMajorRun ==
    \A t \in Threads :
        frame[t].run # None =>
            LET r == The(frame[t].run)
            IN  /\ Len(r.fetched) = r.i
                /\ r.i <= PairCount(r.config)
                /\ \A k \in 1..Len(r.fetched) : r.fetched[k] = PairAt(r.config, k)
                /\ \A k \in 1..Len(r.synced) :
                      <<r.synced[k].symbol, r.synced[k].timeframe>> = PairAt(r.config, k)
                /\ pc[t] # "done" => Len(r.synced) = r.i - 1
                /\ (pc[t] = "done" /\ result[t].status = "ok") =>
                      /\ Len(r.synced) = PairCount(r.config)
                      /\ result[t].body = Some([synced |-> r.synced])
                /\ (pc[t] = "done" /\ result[t].status = "raise") =>
                      /\ result[t].body = None
                      /\ Len(r.synced) = r.i - 1

\* a run over two symbols and two timeframes has raised at its third pair,
\* the entries of the first symbol being in the summary it was building
C38_Witness ==
    /\ pc["worker"] = "done"
    /\ frame["worker"].run # None
    /\ result["worker"].status = "raise"
    /\ LET r == The(frame["worker"].run)
       IN  /\ r.config = << <<"A", "B">>, <<"day", "1m">> >>
           /\ r.fetched = << <<"A", "day">>, <<"A", "1m">>, <<"B", "day">> >>
           /\ Len(r.synced) = 2
           /\ r.synced[2].timeframe = "1m"

\* C37: when the request for a page of run_full_history or
\* get_account_overview fails after its retries, the fetch raises and
\* returns nothing: the rows of the pages taken in before are not returned,
\* and the failing page is the last one requested.
C37_PageFailureAbortsFetch ==
    \A t \in Threads :
        (frame[t].op \in PagerOps /\ frame[t].run = None /\ pc[t] = "done") =>
            /\ (frame[t].lastExc # None /\ frame[t].page >= 1) =>
                  /\ result[t].status = "raise"
                  /\ result[t].body = None
                  /\ result[t].headers = None
                  /\ The(result[t].exc).kind = "RetryError"
                  /\ The(result[t].exc).cause = frame[t].lastExc
                  /\ frame[t].attempt = MaxAttempts
                  /\ Len(frame[t].pagesOk) = frame[t].page - 1
            /\ result[t].status = "ok" => frame[t].lastExc = None

\* the second page of a full-history fetch has failed three times: the call
\* has raised although the first page had brought a row
C37_Witness ==
    /\ pc["ui"] = "done"
    /\ frame["ui"].op = "run_full_history"
    /\ frame["ui"].page = 2
    /\ frame["ui"].attempt = 3
    /\ frame["ui"].aggregated = <<"c">>
    /\ result["ui"].status = "raise"
    /\ result["ui"].body = None

\* the call found no valid cached token to answer from
NotShortCircuited(t) ==
    LET before == The(frame[t].snap)
    IN  ~(/\ before.token # None
          /\ before.expiry # None
          /\ The(before.expiry) > before.now + 60
          /\ ~frame[t].force)

\* C35: an authenticate() that no valid cached token short-circuits raises
\* ConfigurationError, sends no HTTP request and leaves token and expiry as
\* they were when the app key or the secret key is empty or no authenticate
\* endpoint is configured; with both at fault the error is the one of the
\* credentials, their check coming first.
C35_ConfigurationErrorBeforeRequest ==
    \A t \in Threads :
        (frame[t].op = "authenticate" /\ pc[t] \in {"auth_wait", "done"}
            /\ NotShortCircuited(t)) =>
            LET no_credentials == credentials.app_sky = <<>> \/ credentials.sec_key = <<>>
                no_endpoint == "authenticate" \notin endpoints
                raised(text) ==
                    /\ pc[t] = "done"
                    /\ result[t].status = "raise"
                    /\ The(result[t].exc).kind = "ConfigurationError"
                    /\ The(result[t].exc).message = Some(text)
                    /\ frame[t].authReqs = 0
                    /\ access_token = The(frame[t].snap).token
                    /\ token_expiry = The(frame[t].snap).expiry
            IN  /\ no_credentials => raised("app_sky/sec_key credentials are required.")
                /\ (~no_credentials /\ no_endpoint) =>
                      raised("authenticate endpoint missing in config.")
                /\ (~no_credentials /\ ~no_endpoint) => frame[t].authReqs = 1

\* authenticate has raised for the missing secret key on a client that has
\* no authenticate endpoint either
C35_Witness ==
    /\ Finished("ui", "authenticate")
    /\ credentials.app_sky # <<>>
    /\ credentials.sec_key = <<>>
    /\ "authenticate" \notin endpoints
    /\ result["ui"].status = "raise"
    /\ The(result["ui"].exc).message = Some("app_sky/sec_key credentials are required.")

----------------------------------------------------------------------------
(* Specification: one caller, every operation of the session, and a token
   endpoint that may also grant a lifetime beyond the range of datetime *)

SessionAuthResponses ==
    LifeAuthResponses
    \cup {[kind |-> "http", status |-> 200,
           body |-> AuthBody(TRUE, Some(JNum(2 * DatetimeMax)), None)]}

NextSession ==
    \/ update_credentials("ui", <<"b">>, <<"s">>, EnvAccount)
    \/ \E force \in BOOLEAN : authenticate("ui", force)
    \/ \E r \in SessionAuthResponses : authenticate_response("ui", r)
    \/ request_with_headers("ui", Some("candles"), TRUE)
    \/ retry_attempt("ui")
    \/ \E r \in SessionAuthResponses : build_headers_response("ui", r)
    \/ \E r \in LifeDataResponses : request_response("ui", r)
    \/ revoke_token("ui")
    \/ close("ui")
    \/ \E r \in LogoutResponses : revoke_response("ui", r)
    \/ Tick

SpecSession == InitLife /\ [][NextSession]_vars

\* C36: in every state that one caller reaches through authenticate
\* (succeeding or failing), update_credentials, requests, revoke_token and
\* close, the cached token and its expiry are both present or both absent.
C36_TokenAndExpiryTogether == (access_token = None) <=> (token_expiry = None)
----------------------------------------------------------------------------
(* Retry Policy: the sleeps between the attempts *)

\* the schedule in half seconds: 1, 2, 4, 8, 8, ...
HalfSeconds(k) == Smaller(WaitMax, 2 ^ (k - 1))

\* C34: within one execute call the sleep between the failed attempt k and the
\* attempt k + 1 is half a second for k = 1 and doubles with every further
\* failure without ever passing four seconds, min(8, 2^(k-1)) half seconds;
\* nothing is slept before the first attempt or after the last one
C34_ExponentialWaits ==
    /\ \A k \in 1..(2 * MaxAttempts) : wait_exponential(k) = HalfSeconds(k)
    /\ \A t \in Threads :
          frame[t].op = "execute" =>
              /\ Len(frame[t].waits) = IF pc[t] = "backoff" THEN frame[t].attempt
                                       ELSE frame[t].attempt - 1
              /\ \A k \in 1..Len(frame[t].waits) :
                    /\ frame[t].waits[k] = HalfSeconds(k)
                    /\ frame[t].waits[k] <= WaitMax

\* an execute call that failed three times slept half a second, then a second,
\* and gave up without a third sleep
C34_Witness ==
    /\ pc["ui"] = "done"
    /\ frame["ui"].op = "execute"
    /\ frame["ui"].attempt = MaxAttempts
    /\ result["ui"].status = "raise"
    /\ frame["ui"].waits = <<1, 2>>
----------------------------------------------------------------------------
(* Risk Guardrails *)

Abs(x) == IF x < 0 THEN -x ELSE x

\* self.config.get(name, {})
Section(name) == Get(risk, name, [key \in {} |-> 0])

\* what a validation leaves behind: its verdict and the line it logged, if any
Passed == [ok |-> TRUE, logged |-> <<>>]
Failed(line) == [ok |-> FALSE, logged |-> <<line>>]

\* lines 20-25
validate_position_limit(positions_count) ==
    LET limit == Get(Section("position_limits"), "max_positions", 0)
    IN  IF limit # 0 /\ positions_count >= limit
        THEN Failed("Position limit reached")
        ELSE Passed

validate_drawdown_strict(intraday_drawdown_pct) ==
    LET limit == IF "intraday_pct" \in DOMAIN Section("drawdown")
                 THEN Some(Section("drawdown")["intraday_pct"]) ELSE None
    IN  IF limit # None /\ The(limit) # 0 /\ intraday_drawdown_pct < -Abs(The(limit))
        THEN Failed("Drawdown limit exceeded")
        ELSE Passed

\* lines 27-32; .get("intraday_pct") without a default gives None, which is
\* as falsy as 0
validate_drawdown(intraday_drawdown_pct) ==
    LET limit == IF "intraday_pct" \in DOMAIN Section("drawdown")
                 THEN Some(Section("drawdown")["intraday_pct"]) ELSE None
    IN  IF limit # None /\ The(limit) # 0 /\ intraday_drawdown_pct <= -Abs(The(limit))
        THEN Failed("Drawdown limit exceeded")
        ELSE Passed

\* lines 34-42
validate_order_frequency(seconds_since_last_order) ==
    LET min_interval == Get(Section("cooldown"), "order_seconds", 0)
    IN  IF min_interval # 0 /\ seconds_since_last_order < min_interval
        THEN Failed("Order cooldown violation")
        ELSE Passed

\* lines 44-57: the list of the three verdicts is built in full before all()
\* looks at it
is_order_allowed(t, positions_count, intraday_drawdown_pct, seconds_since_last_order) ==
    /\ pc[t] \in {"idle", "done"}
    /\ LET checks == <<validate_position_limit(positions_count),
                       validate_drawdown(intraday_drawdown_pct),
                       validate_order_frequency(seconds_since_last_order)>>
           all == \A k \in 1..Len(checks) : checks[k].ok
       IN  /\ frame' = [frame EXCEPT ![t] =
                           [NoFrame EXCEPT !.op = "is_order_allowed",
                                           !.args = Some(<<positions_count,
                                                           intraday_drawdown_pct,
                                                           seconds_since_last_order>>),
                                           !.logged = checks[1].logged \o checks[2].logged
                                                          \o checks[3].logged]]
           /\ result' = [result EXCEPT ![t] = [NoResult EXCEPT !.status = "ok",
                                                               !.body = Some(all)]]
    /\ pc' = [pc EXCEPT ![t] = "done"]
    /\ UNCHANGED <<credentials, access_token, token_expiry, config, http_session, now,
                   epoch, justUpdated, desk>>

\* risk.yaml: every section absent, empty, or holding its limit; the limits
\* are 0, a positive and a negative number
LimitValues == {0, 2, -2}

Sections(key) == {[k \in {} |-> 0]} \cup {(key :> v) : v \in LimitValues}

RiskConfigs ==
    UNION {{[name \in names |-> IF name = "position_limits" THEN p
                                ELSE IF name = "drawdown" THEN d ELSE c] :
              p \in Sections("max_positions"), d \in Sections("intraday_pct"),
              c \in Sections("order_seconds")} :
           names \in SUBSET {"position_limits", "drawdown", "cooldown"}}

InitRisk ==
    /\ credentials = [app_sky |-> <<"a">>, sec_key |-> <<"s">>, account_no |-> EnvAccount]
    /\ access_token = None
    /\ token_expiry = None
    /\ risk \in RiskConfigs
    /\ window = NoWindow
    /\ events = <<>>
    /\ endpoints = AllEndpoints
    /\ Constructed
    /\ now = 0
    /\ epoch = 0
    /\ justUpdated = FALSE
    /\ pc = [t \in Threads |-> "idle"]
    /\ frame = [t \in Threads |-> NoFrame]
    /\ result = [t \in Threads |-> NoResult]

NextRisk ==
    \E positions_count \in 1..3, intraday_drawdown_pct \in -3..-1,
       seconds_since_last_order \in 1..3 :
        is_order_allowed("ui", positions_count, intraday_drawdown_pct,
                         seconds_since_last_order)

SpecRisk == InitRisk /\ [][NextRisk]_vars

\* the limit the configuration holds under section/key, 0 when there is none
ConfiguredLimit(section, key) ==
    IF section \in DOMAIN risk /\ key \in DOMAIN risk[section]
    THEN risk[section][key] ELSE 0

Keep(lines, failing) ==
    LET Test(line) == line \in failing IN SelectSeq(lines, Test)

\* C39: is_order_allowed returns true exactly when the three validations pass
\* and evaluates every one of them, a failing validation logging its line
\* whatever the validations before it said: the position check fails iff a
\* non-zero max_positions is configured and positions_count >= it, the drawdown
\* check fails iff a non-zero intraday limit is configured and the drawdown is
\* <= -|limit|, the cooldown check fails iff a non-zero order_seconds is
\* configured and the elapsed seconds are < it; a missing or zero limit
\* disables its check
C39_AllowedIffEveryCheckPasses ==
    \A t \in Threads :
        (pc[t] = "done" /\ frame[t].op = "is_order_allowed") =>
            LET a == The(frame[t].args)
                max_positions == ConfiguredLimit("position_limits", "max_positions")
                intraday_pct == ConfiguredLimit("drawdown", "intraday_pct")
                order_seconds == ConfiguredLimit("cooldown", "order_seconds")
                position_fails == max_positions # 0 /\ a[1] >= max_positions
                drawdown_fails == intraday_pct # 0 /\ a[2] <= -Abs(intraday_pct)
                cooldown_fails == order_seconds # 0 /\ a[3] < order_seconds
                failing == (IF position_fails THEN {"Position limit reached"} ELSE {})
                           \cup (IF drawdown_fails THEN {"Drawdown limit exceeded"} ELSE {})
                           \cup (IF cooldown_fails THEN {"Order cooldown violation"} ELSE {})
            IN  /\ result[t].status = "ok"
                /\ result[t].body =
                      Some(~position_fails /\ ~drawdown_fails /\ ~cooldown_fails)
                /\ frame[t].logged =
                      Keep(<<"Position limit reached", "Drawdown limit exceeded",
                             "Order cooldown violation">>, failing)

\* an order refused on all three counts, the drawdown standing exactly at the
\* limit: every validation ran and logged
C39_Witness ==
    /\ pc["ui"] = "done"
    /\ frame["ui"].op = "is_order_allowed"
    /\ risk = [position_limits |-> [max_positions |-> 2],
               drawdown |-> [intraday_pct |-> 2],
               cooldown |-> [order_seconds |-> 2]]
    /\ frame["ui"].args = Some(<<2, -2, 1>>)
    /\ result["ui"].body = Some(FALSE)
    /\ Len(frame["ui"].logged) = 3
----------------------------------------------------------------------------
(* AuthWindow (auth_window.py): the sync button, its worker thread and the
   slots the worker invokes through the event queue of the UI thread *)

\* _append_log, lines 169-175
append_log(w, message, error) ==
    [w EXCEPT !.log_console = Append(@, [message |-> message, error |-> error])]

\* the slots of lines 466-472
enable_sync_button(w) == [w EXCEPT !.sync_button = TRUE]

append_log_async(w, message, is_error) == append_log(w, message, is_error)

Line(text, detail) == [text |-> text, detail |-> detail]

\* QMetaObject.invokeMethod(self, slot, Qt.QueuedConnection, ...)
Queued(slot, message, is_error) ==
    [slot |-> slot, message |-> message, is_error |-> is_error]

NonBlank(piece) == Strip(piece) # <<>>

\* line 421, on the pieces text.split(",") gives:
\* [tf.strip() for tf in ... if tf.strip()]
split_timeframes(pieces) ==
    LET kept == SelectSeq(pieces, NonBlank)
    IN  [k \in 1..Len(kept) |-> Join(Strip(kept[k]))]

\* handle_sync_selected, lines 410-464, up to Thread.start(); the clicked
\* signal of line 349 comes from an enabled button only
handle_sync_selected(selected, pieces, full_history) ==
    /\ window.sync_button
    /\ window.clicks < MaxClicks
    /\ LET symbols == IF selected # <<>> THEN selected ELSE window.watchlist_symbols
           timeframes == split_timeframes(pieces)
           w == [window EXCEPT !.clicks = @ + 1]
           refused == IF ~window.token_ready THEN Some("token first")
                      ELSE IF symbols = <<>> THEN Some("no symbols")
                      ELSE IF timeframes = <<>> THEN Some("no timeframes")
                      ELSE None
       IN  IF refused # None
           THEN /\ window' = append_log(w, Line(The(refused), ""), TRUE)
                /\ UNCHANGED <<pc, frame, result>>
           ELSE /\ window' = [append_log(w, Line("sync started", ""), FALSE)
                                 EXCEPT !.sync_button = FALSE, !.started = @ + 1]
                /\ pc' = [pc EXCEPT !["worker"] = "spawned"]
                /\ frame' = [frame EXCEPT !["worker"] =
                                [NoFrame EXCEPT !.op = "worker",
                                                !.args = Some([symbols |-> symbols,
                                                               timeframes |-> timeframes,
                                                               full_history |-> full_history])]]
                /\ result' = [result EXCEPT !["worker"] = NoResult]
    /\ UNCHANGED <<risk, events, credentials, access_token, token_expiry, config,
                   http_session, now, epoch, justUpdated>>

\* worker(), lines 430-440: the thread starts and runs the service
worker(t) ==
    /\ pc[t] = "spawned"
    /\ LET a == The(frame[t].args)
       IN  service_run(t, a.symbols, a.timeframes, 200, a.full_history)

\* worker(), lines 441-456: the completion or the failure is queued for the
\* UI thread
worker_report(t) ==
    /\ pc[t] = "done"
    /\ frame[t].run # None
    /\ events' = Append(events,
                        IF result[t].status = "ok"
                        THEN Queued("append_log_async",
                                    Line("sync done",
                                         Join(Str(Len(The(result[t].body).synced)))),
                                    FALSE)
                        ELSE Queued("append_log_async",
                                    Line("sync failed", The(result[t].exc).kind), TRUE))
    /\ pc' = [pc EXCEPT ![t] = "finally"]
    /\ UNCHANGED <<risk, window, frame, result, credentials, access_token, token_expiry,
                   config, http_session, now, epoch, justUpdated>>

\* the enabling queued by the try branch alone
worker_finally_on_success(t) ==
    /\ pc[t] = "finally"
    /\ events' = IF result[t].status = "ok"
                 THEN Append(events, Queued("enable_sync_button", Line("", ""), FALSE))
                 ELSE events
    /\ pc' = [pc EXCEPT ![t] = "idle"]
    /\ UNCHANGED <<risk, window, frame, result, credentials, access_token, token_expiry,
                   config, http_session, now, epoch, justUpdated>>

\* worker(), lines 457-462: the finally clause queues the enabling of the
\* button, and the thread ends
worker_finally(t) ==
    /\ pc[t] = "finally"
    /\ events' = Append(events, Queued("enable_sync_button", Line("", ""), FALSE))
    /\ pc' = [pc EXCEPT ![t] = "idle"]
    /\ UNCHANGED <<risk, window, frame, result, credentials, access_token, token_expiry,
                   config, http_session, now, epoch, justUpdated>>

\* the event loop of the UI thread delivers the oldest queued invocation
dispatch ==
    /\ events # <<>>
    /\ LET e == Head(events)
       IN  window' = IF e.slot = "append_log_async"
                     THEN append_log_async(window, e.message, e.is_error)
                     ELSE enable_sync_button(window)
    /\ events' = Tail(events)
    /\ UNCHANGED <<risk, pc, frame, result, credentials, access_token, token_expiry,
                   config, http_session, now, epoch, justUpdated>>

\* timeframe_input.text().split(","), each piece a sequence of characters
TimeframePieces ==
    {<< <<>> >>, << <<" ">>, <<>> >>, << <<"1", "m">> >>,
     << <<" ", "d", "a", "y">>, <<"1", "m", " ">> >>}

\* the form once handle_get_token has or has not obtained a token; a token
\* obtained is cached by the client, with more or less of its life left
InitForm ==
    /\ credentials = [app_sky |-> <<"a">>, sec_key |-> <<"s">>, account_no |-> EnvAccount]
    /\ risk = NoLimits
    /\ \E ready \in BOOLEAN, watchlist \in {<<>>, <<"B">>} :
          window = [NoWindow EXCEPT !.token_ready = ready,
                                    !.watchlist_symbols = watchlist]
    /\ events = <<>>
    /\ IF window.token_ready
       THEN /\ access_token = Some([appkey |-> <<"a">>, epoch |-> 0])
            /\ token_expiry \in {Some(90), Some(30)}
       ELSE /\ access_token = None
            /\ token_expiry = None
    /\ endpoints = AllEndpoints
    /\ Constructed
    /\ now = 0
    /\ epoch = 0
    /\ justUpdated = FALSE
    /\ pc = [t \in Threads |-> "idle"]
    /\ frame = [t \in Threads |-> NoFrame]
    /\ result = [t \in Threads |-> NoResult]

WorkerSteps ==
    \/ worker("worker")
    \/ retry_attempt("worker")
    \/ \E r \in LifeAuthResponses : build_headers_response("worker", r)
    \/ \E r \in SyncResponses("worker") : request_response("worker", r)
    \/ worker_report("worker")
    \/ worker_finally("worker")

NextForm ==
    \/ \E selected \in {<<>>, <<"A">>}, pieces \in TimeframePieces,
          full_history \in BOOLEAN :
            handle_sync_selected(selected, pieces, full_history)
    \/ WorkerSteps
    \/ dispatch

\* The worker thread is scheduled and every request it sends is answered or
\* times out (rest_timeout), and the event loop of the UI thread keeps running
SpecForm == InitForm /\ [][NextForm]_vars /\ WF_vars(WorkerSteps) /\ WF_vars(dispatch)
IsResultLine(line) == line.message.text \in {"sync done", "sync failed"}

IsResultEvent(e) == e.slot = "append_log_async" /\ e.message.text \in {"sync done", "sync failed"}

\* the results of syncs logged so far, and those still queued among es
ResultsLogged == Len(SelectSeq(window.log_console, IsResultLine))
ResultsQueued(es) == Len(SelectSeq(es, IsResultEvent))

WorkerAlive == pc["worker"] # "idle"

\* a step of the worker thread
WorkerStepped ==
    /\ WorkerAlive
    /\ \/ pc'["worker"] # pc["worker"]
       \/ frame'["worker"] # frame["worker"]
       \/ result'["worker"] # result["worker"]

C33_Safe ==
    \* the button is enabled again only once the worker has ended and the
    \* result of every sync started has been logged
    /\ window.sync_button =>
          ~WorkerAlive /\ events = <<>> /\ ResultsLogged = window.started
    \* an enabling in the queue stands behind the result of its sync
    /\ \A k \in 1..Len(events) :
          events[k].slot = "enable_sync_button" =>
              ResultsLogged + ResultsQueued(SubSeq(events, 1, k - 1)) = window.started
    /\ pc["worker"] = "finally" =>
          ResultsLogged + ResultsQueued(events) = window.started

C33_Steps ==
    \* the worker leaves the form alone; what it has to say goes into the queue
    /\ WorkerStepped => window' = window
    /\ Len(events') > Len(events) => WorkerStepped
    \* a worker is started from an enabled button, with no other worker
    \* alive, and the button is disabled by the same handler
    /\ window'.started # window.started =>
          window.sync_button /\ ~WorkerAlive /\ ~window'.sync_button

\* C33: a sync started from the form runs in a worker thread that does not
\* touch the state of the form: its completion or failure message and the
\* enabling of the sync button reach the UI thread as queued slot invocations.
\* After every sync started, whether the run returns or raises, the button is
\* enabled again in the end, behind the result message in the queue, and no
\* second worker is started while the button is disabled
C33_SyncButtonComesBack ==
    /\ []C33_Safe
    /\ [][C33_Steps]_vars
    /\ (~window.sync_button) ~> window.sync_button

\* a sync that failed: its failure was logged through the queue and the
\* button is enabled again
C33_Witness ==
    /\ window.started = 1
    /\ window.sync_button
    /\ pc["worker"] = "idle"
    /\ Len(window.log_console) = 2
    /\ window.log_console[2].message.text = "sync failed"
    /\ window.log_console[2].error

====
